---- MODULE Spec2Model ----
(***************************************************************************)
(* A model of go_ng_news_scraper: the sitemap scraper (bounded fan-out     *)
(* over sitemaps, fetchWithRetry, batched upsert of go_sitemaps), the      *)
(* category scraper (ScrapeCategories, extractCategoryInfo, findParentID)  *)
(* and the article scraper (ScrapeArticle, hasChanged, sameCategories,     *)
(* CalculateContentHash, SaveArticle, the worker pool).                    *)
(*                                                                         *)
(* Go strings are sequences of one-character strings, so that Split,       *)
(* TrimSpace, TrimSuffix and Join are computed as the code computes them.  *)
(* A digest is a TLA+ string holding the hexadecimal SHA-256 of the text.  *)
(***************************************************************************)
EXTENDS Integers, Sequences, FiniteSets, TLC

VARIABLES
    \* hasChanged applied to a pair of records (SpecChange)
    cmpExisting, cmpNew, cmpResult,
    \* test_hash: two scrapes of pages and the comparison of the results (SpecScrape)
    pageA, pageB, recA, recB, scrapePc, scrapeOut,
    \* one call of fetchWithRetry (SpecFetch)
    fw,
    \* the database: go_categories, go_articles, go_article_categories, and
    \* the last value drawn from the sequence of go_categories.id and of
    \* go_articles.id
    categories, articles, links, categorySeq, articleSeq,
    \* the last call of SaveArticle (SpecSave)
    lastSave,
    \* a run of ScrapeCategories (SpecCat)
    catPc, catEntries, catIdx, catTx, catLast, catRuns,
    \* go_sitemaps
    sitemaps,
    \* which program runs (SpecRun), its main goroutine and its WaitGroup
    prog, mainPc, wg,
    \* sitemap scraper: goroutines started, each one's position, fetch and
    \* response, its transaction on go_sitemaps, the error processSitemap
    \* returned to it, the semaphore channel's length, the completed counter
    spawned, gpc, gfw, gresp, gtx, gerr, semaphore, completed,
    \* article scraper: the urls channel, whether it is closed, the rows still
    \* to send, each worker's position and url, the urls sent to the channel
    \* and the urls received from it, in order
    urls, closed, toSend, wpc, wurl, sent, recvd,
    \* calls of processSitemap one after the other (SpecSitemap): the clock
    \* and the last call
    psClock, psLast,
    \* one unit of work after the other in each worker (SpecUnit): the program,
    \* each worker's position, whether its request is in flight, whether the
    \* unit's fetch has completed, the transactions it has begun and not ended,
    \* how its last transaction ended, the attempt of fetchWithRetry, the units
    \* it has finished, the units not yet handed to a worker, and the seconds
    \* an article worker has slept since it sent its last request
    unitProg, upc, inFlight, fetched, txOpen, lastTx, tries, unitsDone, unitsLeft, gap,
    \* two workers in SaveArticle at once (SpecConc): each one's position,
    \* argument, the row it read, what its transaction has written and not yet
    \* committed, and its result; the holder of the lock on the article's
    \* row; the tables before the two calls
    svPc, svArg, svSeen, svTx, svErr, rowLock, svStart,
    \* extractCategoryInfo applied to a url (SpecExtract): the url and the result
    exUrl, exOut

varsChange == <<cmpExisting, cmpNew, cmpResult>>
varsScrape == <<pageA, pageB, recA, recB, scrapePc, scrapeOut>>
varsFetch == <<fw>>
varsDb == <<categories, articles, links, categorySeq, articleSeq>>
varsSave == <<lastSave>>
varsCat == <<catPc, catEntries, catIdx, catTx, catLast, catRuns>>

varsSitemapRun == <<spawned, gpc, gfw, gresp, gtx, gerr, semaphore, completed>>
varsArticleRun == <<urls, closed, toSend, wpc, wurl, sent, recvd>>
varsRun == <<sitemaps, prog, mainPc, wg, varsSitemapRun, varsArticleRun>>

varsPs == <<psClock, psLast>>

varsUnit ==
    <<unitProg, upc, inFlight, fetched, txOpen, lastTx, tries, unitsDone, unitsLeft, gap>>

varsConc == <<svPc, svArg, svSeen, svTx, svErr, rowLock, svStart>>

varsExtract == <<exUrl, exOut>>

vars == <<varsChange, varsScrape, varsFetch, varsDb, varsSave, varsCat, varsRun, varsPs,
          varsUnit, varsConc, varsExtract>>

\* the variables a specification does not use keep these values
IdleChange == cmpExisting = 0 /\ cmpNew = 0 /\ cmpResult = 0
IdleScrape == pageA = 0 /\ pageB = 0 /\ recA = 0 /\ recB = 0 /\ scrapePc = "idle" /\ scrapeOut = 0
IdleFetch == fw = 0
IdleDb == categories = {} /\ articles = {} /\ links = {} /\ categorySeq = 0 /\ articleSeq = 0
IdleSave == lastSave = 0
IdleCat ==
    /\ catPc = "idle" /\ catEntries = <<>> /\ catIdx = 0
    /\ catTx = 0 /\ catLast = 0 /\ catRuns = 0

IdleRun ==
    /\ sitemaps = {} /\ prog = "none" /\ mainPc = "idle" /\ wg = 0
    /\ spawned = 0 /\ gpc = <<>> /\ gfw = <<>> /\ gresp = <<>> /\ gtx = <<>> /\ gerr = <<>>
    /\ semaphore = 0 /\ completed = 0
    /\ urls = <<>> /\ closed = FALSE /\ toSend = <<>> /\ wpc = <<>> /\ wurl = <<>>
    /\ sent = <<>> /\ recvd = <<>>

IdlePs == psClock = 0 /\ psLast = 0
IdleUnit ==
    /\ unitProg = "none" /\ upc = <<>> /\ inFlight = <<>> /\ fetched = <<>> /\ txOpen = <<>>
    /\ lastTx = <<>> /\ tries = <<>> /\ unitsDone = <<>> /\ unitsLeft = 0 /\ gap = <<>>
IdleConc ==
    /\ svPc = <<>> /\ svArg = <<>> /\ svSeen = <<>> /\ svTx = <<>> /\ svErr = <<>>
    /\ rowLock = {} /\ svStart = <<>>
IdleExtract == exUrl = <<>> /\ exOut = 0

\* what each specification leaves alone
FrameChange == <<varsScrape, varsFetch, varsDb, varsSave, varsCat, varsRun, varsPs, varsUnit, varsConc, varsExtract>>
FrameScrape == <<varsChange, varsFetch, varsDb, varsSave, varsCat, varsRun, varsPs, varsUnit, varsConc, varsExtract>>
FrameFetch == <<varsChange, varsScrape, varsDb, varsSave, varsCat, varsRun, varsPs, varsUnit, varsConc, varsExtract>>
FrameSave == <<varsChange, varsScrape, varsFetch, varsCat, varsRun, varsPs, varsUnit, varsConc, varsExtract>>
FrameCat == <<varsChange, varsScrape, varsFetch, articles, links, articleSeq, varsSave, varsRun, varsPs, varsUnit, varsConc, varsExtract>>
FrameRun == <<varsChange, varsScrape, varsFetch, varsSave, varsCat, varsPs, varsUnit, varsConc, varsExtract>>
FramePs == <<varsChange, varsScrape, varsFetch, varsDb, varsSave, varsCat,
             prog, mainPc, wg, varsSitemapRun, varsArticleRun, varsUnit, varsConc, varsExtract>>

FrameUnit == <<varsChange, varsScrape, varsFetch, varsDb, varsSave, varsCat, varsRun, varsPs,
               varsConc, varsExtract>>
FrameConc == <<varsChange, varsScrape, varsFetch, categories, categorySeq, varsSave, varsCat, varsRun, varsPs,
               varsUnit, varsExtract>>
FrameExtract ==
    <<varsChange, varsScrape, varsFetch, varsDb, varsSave, varsCat, varsRun, varsPs, varsUnit, varsConc>>

-----------------------------------------------------------------------------
(* Bounds of the model *)

\* longest category-slug list of a record
MaxSlugs == 2
\* most content paragraphs on a page
MaxParagraphs == 2
\* longest category-slug list of an article handed to SaveArticle
MaxSaveSlugs == 2
\* most entries of a category sitemap
MaxCatEntries == 2
\* most runs of the category scraper
MaxCatRuns == 2
\* largest value drawn from the sequence of go_articles.id by calls of
\* SaveArticle one after the other
MaxArticleSeq == 2
\* most calls of processSitemap one after the other
MaxSitemapCalls == 2
\* sitemaps of the site (221 in part_000 line 89)
NumSitemaps == 4
\* sitemaps of the site in the runs checked for termination
NumLiveSitemaps == 2
\* article URLs stored in go_sitemaps when the article scraper starts
NumArticles == 3
\* capacity of the urls channel (config BatchSize, 100)
QueueCap == 1

-----------------------------------------------------------------------------
(* Go's strings package, on sequences of characters *)

\* A character is a one-character string; a rune that a string of this module
\* cannot hold (U+0000, U+0060 and those above U+00FF) is named by its code
\* point, as in "U+2014".

\* unicode.IsSpace below U+0100: '\t', '\n', '\v', '\f', '\r', ' ', U+0085 (NEL)
\* and U+00A0 (NBSP), in this order
Latin1Space == {"\t", "\n", "", "\f", "\r", " ", "", " "}

\* the White_Space runes above U+00FF
WideSpace ==
    {"U+1680", "U+2000", "U+2001", "U+2002", "U+2003", "U+2004",
     "U+2005", "U+2006", "U+2007", "U+2008", "U+2009", "U+200A",
     "U+2028", "U+2029", "U+202F", "U+205F", "U+3000"}

IsSpace(c) == c \in Latin1Space \cup WideSpace

RECURSIVE TrimLeft(_)
TrimLeft(s) ==
    IF s # <<>> /\ IsSpace(Head(s)) THEN TrimLeft(Tail(s)) ELSE s

RECURSIVE TrimRight(_)
TrimRight(s) ==
    IF s # <<>> /\ IsSpace(s[Len(s)]) THEN TrimRight(SubSeq(s, 1, Len(s) - 1)) ELSE s

TrimSpace(s) == TrimRight(TrimLeft(s))

HasSuffix(s, suf) ==
    /\ Len(s) >= Len(suf)
    /\ SubSeq(s, Len(s) - Len(suf) + 1, Len(s)) = suf

TrimSuffix(s, suf) ==
    IF HasSuffix(s, suf) THEN SubSeq(s, 1, Len(s) - Len(suf)) ELSE s

\* strings.Index: the first position (from 1) where sep starts in s, 0 if none
Index(s, sep) ==
    LET hits == {i \in 1..(Len(s) - Len(sep) + 1) : SubSeq(s, i, i + Len(sep) - 1) = sep}
    IN  IF hits = {} THEN 0 ELSE CHOOSE i \in hits : \A j \in hits : i <= j

\* strings.Split for a non-empty separator
RECURSIVE Split(_, _)
Split(s, sep) ==
    LET i == Index(s, sep)
    IN  IF i = 0 THEN <<s>>
        ELSE <<SubSeq(s, 1, i - 1)>> \o Split(SubSeq(s, i + Len(sep), Len(s)), sep)

RECURSIVE Join(_, _)
Join(parts, sep) ==
    IF parts = <<>> THEN <<>>
    ELSE IF Len(parts) = 1 THEN parts[1]
    ELSE parts[1] \o sep \o Join(Tail(parts), sep)

Range(s) == {s[i] : i \in 1..Len(s)}

SeqsUpTo(S, n) == UNION {[1..k -> S] : k \in 0..n}

-----------------------------------------------------------------------------
(* CalculateContentHash: hex(SHA-256(content)), tabulated on the contents   *)
(* the model builds (texts over a, b and newline).                          *)

Sha256Hex ==
    <<>> :>
        "e3b0c44298fc1c149afbf4c8996fb92427ae41e4649b934ca495991b7852b855" @@
    <<"a">> :>
        "ca978112ca1bbdcafac231b39a23dc4da786eff8147c4e72b9807785afee48bb" @@
    <<"b">> :>
        "3e23e8160039594a33894f6564e1b1348bbd7a0088d42c4acb73eeaed59c009d" @@
    <<"a", "\n", "\n", "a">> :>
        "fb8ef0e435539379217a802b5e0da0a72b504b6dcc051e327750d2a539845264" @@
    <<"a", "\n", "\n", "b">> :>
        "38022fd2b8dbc5cb3d2cee74e083edbf59e3d4e13d067ebcb5db633d4cff4d8c" @@
    <<"b", "\n", "\n", "a">> :>
        "74fd0fd97cc4b9baf18dacb862aedf844935d04a3c59dc81ed735292086f785a" @@
    <<"b", "\n", "\n", "b">> :>
        "c2094f85eca8176b79c47e851a200d522e99964353d1462bd8910c31af3e4069" @@
    <<"a", "\n", "\n", "\n", "\n", "a">> :>
        "5b39d246b6096eaf0280c367290c5a2ebadbfa9036df20399afd640c1ee41f94" @@
    <<"a", "\n", "\n", "\n", "\n", "b">> :>
        "c85bb4862d8f5c0c710d74cb5112fba4280003f15565b91c436b5f6dae883ea5" @@
    <<"b", "\n", "\n", "\n", "\n", "a">> :>
        "2bb4f737a8d0288189a557556bf6582dea0496008bdd6239b57411dd7184d447" @@
    <<"b", "\n", "\n", "\n", "\n", "b">> :>
        "079bb7ff4b4d00d9346454b4a2f08e1458f40093f93c7be96ffa17c6e8f0ad74" @@
    <<"a", "\n", "\n", "a", "\n", "\n", "a">> :>
        "27e8b0b49f72c74fe394b1a718363474e3c20f4e103d6fe0f2528206bca942c5" @@
    <<"a", "\n", "\n", "a", "\n", "\n", "b">> :>
        "572e9c5170af83795480590095219d64a5582a8f5afbba51a056bff2720e9de9" @@
    <<"a", "\n", "\n", "b", "\n", "\n", "a">> :>
        "9c07dd6c0a55d2968bb1639f731ab4ba45f0971c90244a57cc6fe63ccb61667b" @@
    <<"a", "\n", "\n", "b", "\n", "\n", "b">> :>
        "845b848392d18cbc493cd9a5abb3a63686d3716b3e35cad5faece826f566bf23" @@
    <<"b", "\n", "\n", "a", "\n", "\n", "a">> :>
        "64501fe3094b3e84141a1fbc6ce135d5ea62a99f7640c4c283b3fc6ba149fb59" @@
    <<"b", "\n", "\n", "a", "\n", "\n", "b">> :>
        "d92fbe648d348f75132026f48d9953c17bbe446f6b798d12376d6f019cafe976" @@
    <<"b", "\n", "\n", "b", "\n", "\n", "a">> :>
        "d1b9a9105a5cac83c8640f77616d0f9e18cf0edd1ae5c4116d3e52041560f992" @@
    <<"b", "\n", "\n", "b", "\n", "\n", "b">> :>
        "781ef7f72ca4039cb7fcb0ad017c9d99e5499f4fdef3eac0047da7cd190d2898" @@
    <<"a", "\n", "\n", "\n", "\n", "\n", "\n", "a">> :>
        "034df06d31b43950da17b4223577d119403b3eecf63e6ab96d793befec3d28f6" @@
    <<"a", "\n", "\n", "\n", "\n", "\n", "\n", "b">> :>
        "db73fe534df486f931002299057c52e63ea7fb67f41281b91df047a69ff685dd" @@
    <<"b", "\n", "\n", "\n", "\n", "\n", "\n", "a">> :>
        "1bc2300ac501e66c8f78a0f15971cdecf69fb33f527a1857cd541a00982ec2c5" @@
    <<"b", "\n", "\n", "\n", "\n", "\n", "\n", "b">> :>
        "59dc34d2755b08cd31e0400d5e951492b7cb2463c5d70dd6fc5051e3d46170c4" @@
    <<"a", "\n", "\n", "\n", "\n", "a", "\n", "\n", "a">> :>
        "a7b3da37033a43677e6ebc40ccdf66afc31bf2def5fb0cb9d56ee9fa461b440f" @@
    <<"a", "\n", "\n", "\n", "\n", "a", "\n", "\n", "b">> :>
        "60bc1e4a27a7e8ce6749f47e3e3fcd92a43bdde87df2512130ef1bd4fce6c52b" @@
    <<"a", "\n", "\n", "\n", "\n", "b", "\n", "\n", "a">> :>
        "8aa2f2eeaf745fea727458d2d6f6865f9f572fb42d8b0e1b1b0ec162fec3bf2b" @@
    <<"a", "\n", "\n", "\n", "\n", "b", "\n", "\n", "b">> :>
        "9810c093a315d335d3da9e89e098355c2ec406cfe65a7a676c2223b59c5f15a6" @@
    <<"a", "\n", "\n", "a", "\n", "\n", "\n", "\n", "a">> :>
        "f50d7943000896852fc5be22e464220615a3fcdf42695cbcddeaa40d56eebf5a" @@
    <<"a", "\n", "\n", "a", "\n", "\n", "\n", "\n", "b">> :>
        "c6701adb91bbabd4844e8b8ede13f8a976f5e5d87b9b03fcb21d0638b171c364" @@
    <<"a", "\n", "\n", "b", "\n", "\n", "\n", "\n", "a">> :>
        "1848be22af9042e77bb1926875b9a7859caf0815bebf4f92d1c0e0213916472f" @@
    <<"a", "\n", "\n", "b", "\n", "\n", "\n", "\n", "b">> :>
        "f7681a5977c2e3d58c58bf0209fce7aada29b71a7bdd9b8e059cfee3659594c4" @@
    <<"b", "\n", "\n", "\n", "\n", "a", "\n", "\n", "a">> :>
        "c234864a18fead9578b1bc64bba9808d63fb8b8aaec814ef97b214fb3d8b85be" @@
    <<"b", "\n", "\n", "\n", "\n", "a", "\n", "\n", "b">> :>
        "189bc0d50fb06ab6a0f8386b20d36ccd9bcf706a9c4f42c25d63c28d9bbc435e" @@
    <<"b", "\n", "\n", "\n", "\n", "b", "\n", "\n", "a">> :>
        "06dc49837cdb8216f1c1719a2cf6d284416d89d9fb1f35d8335dac1ff1ff3ac9" @@
    <<"b", "\n", "\n", "\n", "\n", "b", "\n", "\n", "b">> :>
        "d4721f262f5adcc653354c252170c3748b36a062521391e220d0d689fd908640" @@
    <<"b", "\n", "\n", "a", "\n", "\n", "\n", "\n", "a">> :>
        "17d4931f7368a01f0e6c347b0954dea700b009b018e4805a7be74a114a2ca1a1" @@
    <<"b", "\n", "\n", "a", "\n", "\n", "\n", "\n", "b">> :>
        "f320b92eab8943103c4f9bff476a4c8375a0e12f468a1d85b63ae50d8257fa9c" @@
    <<"b", "\n", "\n", "b", "\n", "\n", "\n", "\n", "a">> :>
        "94186ec96da85917ee5d905d25f9253305eaeb00f8542fe952af0bca5999cb17" @@
    <<"b", "\n", "\n", "b", "\n", "\n", "\n", "\n", "b">> :>
        "979ae37cbc6095091b9465e3db4a34802d0d55886f5bb98c7cbac9f519b69929" @@
    <<"a", "\n", "\n", "a", "\n", "\n", "a", "\n", "\n", "a">> :>
        "f68daf6f5da3b1d617bfe1447b5fd5d3f9df9140465c54e530894125c9201678" @@
    <<"a", "\n", "\n", "a", "\n", "\n", "a", "\n", "\n", "b">> :>
        "67d711b95696e978e7b18b3a7769bfee4ad064ad59df0adde98ba1557d2caeba" @@
    <<"a", "\n", "\n", "a", "\n", "\n", "b", "\n", "\n", "a">> :>
        "c6482d4912c193959fc2289df68eb48f0e9f15ed8161bc7aa8de75ac1f679ce0" @@
    <<"a", "\n", "\n", "a", "\n", "\n", "b", "\n", "\n", "b">> :>
        "e7b5347437a5496a5c89f606098888747ac4915f690b4a680ac5fe585cc1e0c5" @@
    <<"a", "\n", "\n", "b", "\n", "\n", "a", "\n", "\n", "a">> :>
        "2db268fd7191531a9db291ed5a48c808f6afcff4e28c343f4c6cf39700993f22" @@
    <<"a", "\n", "\n", "b", "\n", "\n", "a", "\n", "\n", "b">> :>
        "e21252104f5461500a21e5613fc3f0585a74819e7a086a0ca454a4bd867b2c65" @@
    <<"a", "\n", "\n", "b", "\n", "\n", "b", "\n", "\n", "a">> :>
        "ed48460f283e45a7f399efeb6dfb1dc10fa9fe5292b4d37183ac7eb7bacf6d29" @@
    <<"a", "\n", "\n", "b", "\n", "\n", "b", "\n", "\n", "b">> :>
        "03bf737b9d0b348c359b60108e2db97ca5e7fa0724b0733f205416eb97e19e44" @@
    <<"b", "\n", "\n", "a", "\n", "\n", "a", "\n", "\n", "a">> :>
        "9b80badfba75bb0c9f31902b66bed0dde4da88076b281bcfa45063fedf0cac10" @@
    <<"b", "\n", "\n", "a", "\n", "\n", "a", "\n", "\n", "b">> :>
        "583cb1d606baac58e0176c2963dfdefb44a87dcdea0b22dbf3ed72c6fd972076" @@
    <<"b", "\n", "\n", "a", "\n", "\n", "b", "\n", "\n", "a">> :>
        "73c615f6b1cb292bbd319eada8358940dedffc4ab4a9687c7a7d53c264605931" @@
    <<"b", "\n", "\n", "a", "\n", "\n", "b", "\n", "\n", "b">> :>
        "95e3379fc0dbe8e71bafeca4149ca633edd391d5f2bec4046591a341950f8236" @@
    <<"b", "\n", "\n", "b", "\n", "\n", "a", "\n", "\n", "a">> :>
        "62211f726a08e27834022f16d8e183a76d0260c17998d5fe027e8f82e645ace6" @@
    <<"b", "\n", "\n", "b", "\n", "\n", "a", "\n", "\n", "b">> :>
        "51bff9ce658bff6efa91b79ce3d82f3691509eb99691111505e99d468168592d" @@
    <<"b", "\n", "\n", "b", "\n", "\n", "b", "\n", "\n", "a">> :>
        "69ecdd3dd1995f6d87a1949cc7e46fc0d31960ab62efc84230eee8e7c86a706a" @@
    <<"b", "\n", "\n", "b", "\n", "\n", "b", "\n", "\n", "b">> :>
        "6c941c9f6c7534e0948f4fc3444523197baca58c3f092ab734488c305cf5efbc"

CalculateContentHash(content) == Sha256Hex[content]

-----------------------------------------------------------------------------
(* Values of the record fields *)

Slash == <<"/">>
SlugNews == <<"n", "e", "w", "s">>
SlugPolitics == <<"p", "o", "l", "i", "t", "i", "c", "s">>
SlugNewsPolitics == SlugNews \o Slash \o SlugPolitics
SlugSport == <<"s", "p", "o", "r", "t">>

Titles == {<<"T">>, <<"U">>}
Authors == {<<"A">>, <<"B">>}
Contents == {<<"a">>, <<"b">>}
Dates == {0, 1}
Slugs == {SlugNews, SlugSport}
SlugLists == SeqsUpTo(Slugs, MaxSlugs)

\* the zero value of a Go string
NoString == <<>>
\* ContentHash of a record on which no hash was computed
NoHash == ""

-----------------------------------------------------------------------------
(* Article (part_003 lines 45-57) *)

Article(id, title, cats, author, pub, upd, content, url, slugs, hash) ==
    [ID |-> id, Title |-> title, Categories |-> cats, Author |-> author,
     PublishDate |-> pub, UpdatedDate |-> upd, Content |-> content, URL |-> url,
     CategorySlugs |-> slugs, ContentHash |-> hash]

\* A plausible slip: compare the slug lists as sequences.
sameCategoriesOrdered(a, b) == a = b

sameCategories(a, b) ==
    IF Len(a) # Len(b) THEN FALSE
    ELSE LET seen == Range(a)
         IN  \A i \in 1..Len(b) : b[i] \in seen

hasChanged(existing, new) ==
    \/ existing.Title # new.Title
    \/ existing.Author # new.Author
    \/ existing.ContentHash # new.ContentHash
    \/ ~sameCategories(existing.CategorySlugs, new.CategorySlugs)

-----------------------------------------------------------------------------
(* SpecChange: hasChanged and sameCategories on pairs of records *)

UrlA == <<"/", "a">>
UrlB == <<"/", "b">>

\* the stored side: what SaveArticle reads back (id, title, content, author, hash, slugs)
ExistingRecords ==
    {Article(1, t, <<>>, au, 0, 0, c, UrlA, sl, CalculateContentHash(c)) :
        t \in Titles, au \in Authors, c \in Contents, sl \in SlugLists}

\* the candidate side: every field varies
CandidateRecords ==
    {Article(id, t, names, au, d, d, c, UrlA, sl, CalculateContentHash(c)) :
        id \in {0, 2}, t \in Titles, names \in {<<>>, <<<<"N">>>>}, au \in Authors,
        d \in Dates, c \in Contents, sl \in SlugLists}

InitChange ==
    /\ cmpExisting \in ExistingRecords
    /\ cmpNew \in CandidateRecords
    /\ cmpResult = [done |-> FALSE, changed |-> FALSE, same |-> FALSE]
    /\ IdleScrape /\ IdleFetch /\ IdleDb /\ IdleSave /\ IdleCat /\ IdleRun /\ IdlePs /\ IdleUnit /\ IdleConc /\ IdleExtract

Compare ==
    /\ cmpResult.done = FALSE
    /\ cmpResult' = [done |-> TRUE,
                     changed |-> hasChanged(cmpExisting, cmpNew),
                     same |-> sameCategories(cmpExisting.CategorySlugs, cmpNew.CategorySlugs)]
    /\ UNCHANGED <<cmpExisting, cmpNew, FrameChange>>

NextChange == Compare

SpecChange == InitChange /\ [][NextChange]_vars

SlugSet(r) == Range(r.CategorySlugs)

IsPermutation(a, b) ==
    /\ Len(a) = Len(b)
    /\ \E p \in [1..Len(a) -> 1..Len(a)] :
          /\ \A i, j \in 1..Len(a) : p[i] = p[j] => i = j
          /\ \A i \in 1..Len(a) : b[i] = a[p[i]]

\* C2: sameCategories(a, b) is true exactly when the set of slugs of a equals
\* the set of slugs of b (repeated slugs included), and hasChanged is true
\* whenever the two slug sets differ.
C2_SameCategoriesIsSetEquality ==
    cmpResult.done =>
        /\ cmpResult.same <=> (SlugSet(cmpExisting) = SlugSet(cmpNew))
        /\ SlugSet(cmpExisting) # SlugSet(cmpNew) => cmpResult.changed

\* C3: with equal title, author and content hash, hasChanged is false when the
\* candidate's slugs are a permutation of the stored slugs.
C3_PermutationUnchanged ==
    ( /\ cmpResult.done
      /\ cmpExisting.Title = cmpNew.Title
      /\ cmpExisting.Author = cmpNew.Author
      /\ cmpExisting.ContentHash = cmpNew.ContentHash
      /\ IsPermutation(cmpExisting.CategorySlugs, cmpNew.CategorySlugs) )
    => cmpResult.changed = FALSE

\* the slugs are reordered (not the same sequence) and hasChanged said false
C3_Witness ==
    /\ cmpResult.done
    /\ cmpExisting.Title = cmpNew.Title
    /\ cmpExisting.Author = cmpNew.Author
    /\ cmpExisting.ContentHash = cmpNew.ContentHash
    /\ IsPermutation(cmpExisting.CategorySlugs, cmpNew.CategorySlugs)
    /\ cmpExisting.CategorySlugs # cmpNew.CategorySlugs
    /\ cmpResult.changed = FALSE

\* C4: hasChanged is true if and only if title, content hash, author or the
\* set of category slugs differs; no other field makes it true.
C4_ChangedIffComparedFieldDiffers ==
    cmpResult.done =>
        ( cmpResult.changed <=>
            \/ cmpExisting.Title # cmpNew.Title
            \/ cmpExisting.ContentHash # cmpNew.ContentHash
            \/ cmpExisting.Author # cmpNew.Author
            \/ SlugSet(cmpExisting) # SlugSet(cmpNew) )

-----------------------------------------------------------------------------
(* ScrapeArticle (part_003 lines 59-121).  A page is what the selectors find *)
(* in the fetched document: the text of the title and author elements, the   *)
(* category anchors (text, href), the datetime attributes and the text of    *)
(* each content paragraph.                                                   *)

CategoryPath == <<"/", "c", "a", "t", "e", "g", "o", "r", "y", "/">>
Host == <<"h">>
NoAttr == "absent"
BadDate == "unparsable"

Href(slug) == Host \o CategoryPath \o slug \o Slash

\* time.Parse(time.RFC3339, attr): the parsed time, or the zero time
ParseDate(attr) ==
    CASE attr = "2024-01-01T00:00:00Z" -> 1
      [] attr = "2024-01-02T00:00:00Z" -> 2
      [] OTHER -> 0

\* the anchors of the page that carry a category href, in document order
RECURSIVE FoundCategories(_)
FoundCategories(anchors) ==
    IF anchors = <<>> THEN <<>>
    ELSE LET a == Head(anchors)
             parts == Split(a.href, CategoryPath)
         IN  IF a.href # NoAttr /\ Len(parts) = 2
             THEN <<[name |-> TrimSpace(a.text), slug |-> TrimSuffix(parts[2], Slash)]>>
                      \o FoundCategories(Tail(anchors))
             ELSE FoundCategories(Tail(anchors))

RECURSIVE ContentBuilder(_)
ContentBuilder(paragraphs) ==
    IF paragraphs = <<>> THEN <<>>
    ELSE TrimSpace(Head(paragraphs)) \o <<"\n", "\n">> \o ContentBuilder(Tail(paragraphs))

\* ContentHash of the record ScrapeArticle returns: the field is never assigned
ScrapedHash(content) == NoHash

ScrapeArticle(url, page) ==
    LET found == FoundCategories(page.anchors)
        content == TrimSpace(ContentBuilder(page.paragraphs))
    IN  Article(0,
                TrimSpace(page.title),
                [i \in 1..Len(found) |-> found[i].name],
                TrimSpace(page.author),
                ParseDate(page.published),
                ParseDate(page.updated),
                content,
                url,
                [i \in 1..Len(found) |-> found[i].slug],
                ScrapedHash(content))

-----------------------------------------------------------------------------
(* SpecScrape: cmd/test_hash, two scrapes and the comparison of the records *)

ParagraphTexts == {<<"a">>, <<"b">>, <<" ", "a">>}

AnchorLists ==
    { <<>>,
      <<[text |-> <<"N">>, href |-> Href(SlugNews)]>>,
      <<[text |-> <<"N">>, href |-> Href(SlugNews)], [text |-> <<"X">>, href |-> NoAttr]>> }

\* the author's name ends in a no-break space (U+00A0)
Pages ==
    {[title |-> t, author |-> <<"A", " ">>, anchors |-> an, published |-> d,
      updated |-> NoAttr, paragraphs |-> ps] :
        t \in {<<"T">>, <<" ", "T">>}, an \in AnchorLists, d \in {"2024-01-01T00:00:00Z", BadDate},
        ps \in SeqsUpTo(ParagraphTexts, MaxParagraphs)}

InitScrape ==
    /\ pageA \in Pages
    /\ pageB \in {pg \in Pages : pg.published = pageA.published}
    /\ recA = 0
    /\ recB = 0
    /\ scrapePc = "first"
    /\ scrapeOut = 0
    /\ IdleChange /\ IdleFetch /\ IdleDb /\ IdleSave /\ IdleCat /\ IdleRun /\ IdlePs /\ IdleUnit /\ IdleConc /\ IdleExtract

\* main, lines 41-46: the first scrape
ScrapeFirst ==
    /\ scrapePc = "first"
    /\ recA' = ScrapeArticle(UrlA, pageA)
    /\ scrapePc' = "second"
    /\ UNCHANGED <<pageA, pageB, recB, scrapeOut, FrameScrape>>

\* main, lines 48-53: the second scrape
ScrapeSecond ==
    /\ scrapePc = "second"
    /\ recB' = ScrapeArticle(UrlA, pageB)
    /\ scrapePc' = "print"
    /\ UNCHANGED <<pageA, pageB, recA, scrapeOut, FrameScrape>>

\* main, lines 55-57: the two hashes are compared; hasChanged on the pair
PrintHashes ==
    /\ scrapePc = "print"
    /\ scrapeOut' = [hash1 |-> recA.ContentHash, hash2 |-> recB.ContentHash,
                     match |-> recA.ContentHash = recB.ContentHash,
                     changed |-> hasChanged(recA, recB)]
    /\ scrapePc' = "done"
    /\ UNCHANGED <<pageA, pageB, recA, recB, FrameScrape>>

NextScrape == ScrapeFirst \/ ScrapeSecond \/ PrintHashes

SpecScrape == InitScrape /\ [][NextScrape]_vars

DifferOnlyInContent(a, b) ==
    /\ a.Content # b.Content
    /\ a.Title = b.Title
    /\ a.Author = b.Author
    /\ a.Categories = b.Categories
    /\ a.CategorySlugs = b.CategorySlugs
    /\ a.PublishDate = b.PublishDate
    /\ a.UpdatedDate = b.UpdatedDate
    /\ a.URL = b.URL

\* C5: two records returned by ScrapeArticle with the same body text have equal
\* ContentHash; two that differ only in body text have different ContentHash
\* and hasChanged on the pair is true.
C5_ScrapedHashFollowsContent ==
    scrapePc = "done" =>
        /\ recA.Content = recB.Content => scrapeOut.match
        /\ DifferOnlyInContent(recA, recB) => (~scrapeOut.match /\ scrapeOut.changed)

-----------------------------------------------------------------------------
(* fetchWithRetry (part_000 lines 55-68).  A call is a record: the loop      *)
(* index i, lastErr, the attempts made so far (when each client.Get was      *)
(* issued and how it ended), the time spent in time.Sleep, and the result.   *)

maxRetries == 3
retryDelay == 5

NoErr == "nil"
NoResp == 0
Pending == [err |-> "pending", status |-> NoResp]

\* client.Get ends with a response (any status code) or with a transport error
Response(code) == [err |-> NoErr, status |-> code]
TransportError(e) == [err |-> e, status |-> NoResp]

FwCall(url) ==
    [pc |-> "loop", url |-> url, i |-> 0, lastErr |-> NoErr, attempts |-> <<>>,
     clock |-> 0, result |-> [status |-> NoResp, err |-> NoErr, attempts |-> 0]]

\* A plausible slip: one attempt too many.
FwLoopCondOffByOne(f) == f.i <= maxRetries

\* line 57: i < maxRetries
FwLoopCond(f) == f.i < maxRetries

\* A plausible slip: a response with an error status is retried too.
FwGotResponseOnly2xx(outcome) == outcome.err = NoErr /\ outcome.status < 300

\* line 59: err == nil
FwGotResponse(outcome) == outcome.err = NoErr

\* line 58, the request is sent
FwGetStart(f) ==
    [f EXCEPT !.pc = "inflight",
              !.attempts = Append(@, [at |-> f.clock, outcome |-> Pending])]

\* lines 58-64, client.Get returns
FwGetEnd(f, outcome) ==
    LET g == [f EXCEPT !.attempts[Len(f.attempts)].outcome = outcome]
    IN  IF FwGotResponse(outcome)
        THEN [g EXCEPT !.pc = "returned",
                       !.result = [status |-> outcome.status, err |-> NoErr, attempts |-> 0]]
        ELSE [g EXCEPT !.pc = "sleep", !.lastErr = outcome.err]

\* line 65 and the loop's i++
FwSleep(f) ==
    [f EXCEPT !.pc = "loop", !.clock = @ + retryDelay, !.i = @ + 1]

\* line 67: "after %d attempts: %w"
FwGiveUp(f) ==
    [f EXCEPT !.pc = "returned",
              !.result = [status |-> NoResp, err |-> f.lastErr, attempts |-> maxRetries]]

FwInFlight(f) == f.pc = "inflight"
FwReturned(f) == f.pc = "returned"
FwFailed(f) == f.pc = "returned" /\ f.result.err # NoErr

-----------------------------------------------------------------------------
(* SpecFetch: one call of fetchWithRetry against any target *)

TransportErrors == {"timeout", "refused"}
StatusCodes == {200, 404, 500}
SitemapURLs == {<<"/", "1">>, <<"/", "2">>}

InitFetch ==
    /\ \E u \in SitemapURLs : fw = FwCall(u)
    /\ IdleChange /\ IdleScrape /\ IdleDb /\ IdleSave /\ IdleCat /\ IdleRun /\ IdlePs /\ IdleUnit /\ IdleConc /\ IdleExtract

FetchGetStart ==
    /\ fw.pc = "loop"
    /\ FwLoopCond(fw)
    /\ fw' = FwGetStart(fw)
    /\ UNCHANGED FrameFetch

FetchGetResponse ==
    /\ fw.pc = "inflight"
    /\ \E code \in StatusCodes : fw' = FwGetEnd(fw, Response(code))
    /\ UNCHANGED FrameFetch

FetchGetError ==
    /\ fw.pc = "inflight"
    /\ \E e \in TransportErrors : fw' = FwGetEnd(fw, TransportError(e))
    /\ UNCHANGED FrameFetch

FetchSleep ==
    /\ fw.pc = "sleep"
    /\ fw' = FwSleep(fw)
    /\ UNCHANGED FrameFetch

FetchGiveUp ==
    /\ fw.pc = "loop"
    /\ ~FwLoopCond(fw)
    /\ fw' = FwGiveUp(fw)
    /\ UNCHANGED FrameFetch

NextFetch ==
    FetchGetStart \/ FetchGetResponse \/ FetchGetError \/ FetchSleep \/ FetchGiveUp

SpecFetch == InitFetch /\ [][NextFetch]_vars

AllAttemptsFailed(f) ==
    \A k \in 1..Len(f.attempts) : f.attempts[k].outcome.err \in TransportErrors

\* C7: when every attempt fails at transport level, fetchWithRetry makes exactly
\* maxRetries attempts, retryDelay elapses between consecutive attempts, and the
\* error returned wraps the last error and names maxRetries attempts; there are
\* never more than maxRetries attempts.
C7_RetryExhaustion ==
    /\ Len(fw.attempts) <= maxRetries
    /\ \A k \in 2..Len(fw.attempts) :
          fw.attempts[k].at - fw.attempts[k - 1].at >= retryDelay
    /\ (FwReturned(fw) /\ AllAttemptsFailed(fw)) =>
          /\ Len(fw.attempts) = maxRetries
          /\ fw.result.status = NoResp
          /\ fw.result.err = fw.attempts[maxRetries].outcome.err
          /\ fw.result.attempts = maxRetries

\* the call gave up after failures of different kinds
C7_Witness ==
    /\ FwReturned(fw)
    /\ AllAttemptsFailed(fw)
    /\ Len(fw.attempts) = maxRetries
    /\ fw.attempts[1].outcome.err # fw.attempts[maxRetries].outcome.err
    /\ fw.result.err = fw.attempts[maxRetries].outcome.err

\* C8: the first attempt that receives a response, whatever its status, ends
\* the call: the response is the result, there is no error and no later attempt;
\* only transport failures are followed by another attempt.
C8_ResponseEndsFetch ==
    \A k \in 1..Len(fw.attempts) :
        LET o == fw.attempts[k].outcome
        IN  /\ o.err = NoErr =>
                /\ k = Len(fw.attempts)
                /\ FwReturned(fw)
                /\ fw.result = [status |-> o.status, err |-> NoErr, attempts |-> 0]
            /\ k < Len(fw.attempts) => o.err \in TransportErrors

\* a 500 received on the second attempt was returned as the result
C8_Witness ==
    /\ FwReturned(fw)
    /\ Len(fw.attempts) = 2
    /\ fw.attempts[1].outcome.err \in TransportErrors
    /\ fw.attempts[2].outcome = Response(500)
    /\ fw.result = [status |-> 500, err |-> NoErr, attempts |-> 0]

-----------------------------------------------------------------------------
(* The database.  go_categories rows are [id, website_id, name, slug, url,   *)
(* parent_id], unique on (website_id, slug); go_articles rows are [id,       *)
(* website_id, title, content, content_hash, author, publish_date,           *)
(* last_updated, url], unique on url; go_article_categories rows are         *)
(* [article_id, category_id], unique on the pair.  The created_at columns    *)
(* are not modelled.                                                         *)
(*                                                                           *)
(* The id of a row is the default of a serial column: the next value of the  *)
(* table's sequence.  INSERT ... ON CONFLICT draws the value when it forms   *)
(* the row to insert, before it looks for a conflict, so the statement       *)
(* moves the sequence also when it ends in DO UPDATE; and a value drawn is   *)
(* not given back when the transaction rolls back.  A statement that fails   *)
(* may have drawn its value or not.                                          *)
(*                                                                           *)
(* A statement that fails on the server leaves the PostgreSQL transaction    *)
(* aborted: every later statement of the transaction fails and Commit        *)
(* returns an error after rolling back.                                      *)

\* config.Websites[1].ID
WebsiteID == 1
\* SQL NULL in an id column (ids start at 1)
Null == 0

\* nextval of a sequence whose last value is seq
Nextval(seq) == seq + 1

\* the values a sequence may have after a statement that draws from it ended:
\* with its value drawn, or, when the statement failed, possibly before that
SeqAfter(seq, failed) == IF failed THEN {seq, Nextval(seq)} ELSE {Nextval(seq)}

RECURSIVE SetToSeq(_)
SetToSeq(S) ==
    IF S = {} THEN <<>>
    ELSE LET x == CHOOSE y \in S : TRUE IN <<x>> \o SetToSeq(S \ {x})

CategoryRow(id, site, name, slug, url, parent) ==
    [id |-> id, website_id |-> site, name |-> name, slug |-> slug, url |-> url,
     parent_id |-> parent]

\* SELECT id FROM go_categories WHERE website_id = $1 AND slug = $2
CategoryIdsFor(cats, site, slug) ==
    {c.id : c \in {r \in cats : r.website_id = site /\ r.slug = slug}}

\* SELECT c.slug FROM go_categories c JOIN go_article_categories ac ... WHERE ac.article_id = $1
LinkedSlugs(cats, lnks, articleId) ==
    {c.slug : c \in {r \in cats : [article_id |-> articleId, category_id |-> r.id] \in lnks}}

-----------------------------------------------------------------------------
(* SaveArticle (part_003 lines 157-268), one call as one transaction.        *)
(* fault names the statement that fails in this call, if it is executed:     *)
(* "none", "begin", "select", "categories", "upsert", "delete", "lookup"     *)
(* (the first category lookup), "link" (the first link insert), "commit".    *)

NoOps == [articleWrite |-> FALSE, linkDelete |-> FALSE, linkInserts |-> 0]

\* seqs: the values the sequence of go_articles.id may have after the call
SaveResult(err, arts, lnks, seqs, ops, faulted) ==
    [err |-> err, articles |-> arts, links |-> lnks, seqs |-> seqs, ops |-> ops,
     faulted |-> faulted]

\* lines 203-225: INSERT ... ON CONFLICT (url) DO UPDATE ... RETURNING id;
\* drawn is the value the statement drew from the sequence
UpsertArticle(arts, a, drawn) ==
    LET old == {r \in arts : r.url = a.URL}
        id == IF old = {} THEN drawn ELSE (CHOOSE r \in old : TRUE).id
        site == IF old = {} THEN WebsiteID ELSE (CHOOSE r \in old : TRUE).website_id
        row == [id |-> id, website_id |-> site, title |-> a.Title,
                content |-> a.Content, content_hash |-> a.ContentHash,
                author |-> a.Author, publish_date |-> a.PublishDate,
                last_updated |-> a.UpdatedDate, url |-> a.URL]
    IN  [id |-> id, articles |-> (arts \ old) \cup {row}]

\* lines 243-265: the slugs that resolve to a category id, in order
RECURSIVE ResolvedIds(_, _)
ResolvedIds(cats, slugs) ==
    IF slugs = <<>> THEN <<>>
    ELSE LET ids == CategoryIdsFor(cats, WebsiteID, Head(slugs))
         IN  (IF ids = {} THEN <<>> ELSE <<CHOOSE i \in ids : TRUE>>)
                 \o ResolvedIds(cats, Tail(slugs))

\* lines 168-191: the stored record as SaveArticle reads it back
ExistingArticle(cats, lnks, row, queryFailed) ==
    Article(row.id, row.title, <<>>, row.author, 0, 0, row.content, NoString,
            IF queryFailed THEN <<>> ELSE SetToSeq(LinkedSlugs(cats, lnks, row.id)),
            row.content_hash)

\* A plausible slip: no deferred Rollback, and the connection commits what
\* the call wrote before the link deletion failed.
SaveArticleNoRollback(cats, arts, lnks, seq, article, fault) ==
    LET a == [article EXCEPT !.ContentHash = CalculateContentHash(article.Content)]
        up == UpsertArticle(arts, a, Nextval(seq))
    IN  IF fault = "delete"
        THEN SaveResult("failed to clear existing categories", up.articles, lnks,
                        SeqAfter(seq, FALSE),
                        [articleWrite |-> TRUE, linkDelete |-> FALSE, linkInserts |-> 0], TRUE)
        ELSE SaveResult(NoErr, arts, lnks, {seq}, NoOps, FALSE)

\* seq is the last value drawn from the sequence of go_articles.id
SaveArticle(cats, arts, lnks, seq, article, fault) ==
    LET a == [article EXCEPT !.ContentHash = CalculateContentHash(article.Content)]
        found == {r \in arts : r.url = a.URL}
        selectFailed == fault = "select"
        exists == ~selectFailed /\ found # {}
        queryFailed == exists /\ fault = "categories"
        existing == ExistingArticle(cats, lnks, CHOOSE r \in found : TRUE, queryFailed)
        aborted == selectFailed \/ queryFailed
        up == UpsertArticle(arts, a, Nextval(seq))
        drew == SeqAfter(seq, FALSE)
        ids == ResolvedIds(cats, a.CategorySlugs)
        lookupFailed == fault = "lookup" /\ a.CategorySlugs # <<>>
        linkFailed == ~lookupFailed /\ fault = "link" /\ ids # <<>>
        cleared == {l \in lnks : l.article_id # up.id}
        linked == cleared \cup {[article_id |-> up.id, category_id |-> ids[i]] : i \in 1..Len(ids)}
        wrote == [articleWrite |-> TRUE, linkDelete |-> FALSE, linkInserts |-> 0]
        deleted == [articleWrite |-> TRUE, linkDelete |-> TRUE, linkInserts |-> 0]
    IN  IF fault = "begin"
        THEN SaveResult("failed to begin transaction", arts, lnks, {seq}, NoOps, TRUE)
        ELSE IF exists /\ ~hasChanged(existing, a)
        THEN SaveResult(NoErr, arts, lnks, {seq}, NoOps, aborted)
        ELSE IF aborted
        THEN SaveResult("failed to upsert article", arts, lnks, {seq}, NoOps, TRUE)
        ELSE IF fault = "upsert"
        THEN SaveResult("failed to upsert article", arts, lnks, SeqAfter(seq, TRUE),
                        NoOps, TRUE)
        ELSE IF fault = "delete"
        THEN SaveResult("failed to clear existing categories", arts, lnks, drew, wrote, TRUE)
        ELSE IF lookupFailed
        THEN SaveResult("commit", arts, lnks, drew, deleted, TRUE)
        ELSE IF linkFailed
        THEN SaveResult("commit", arts, lnks, drew, deleted, TRUE)
        ELSE IF fault = "commit"
        THEN SaveResult("commit", arts, lnks, drew,
                        [deleted EXCEPT !.linkInserts = Len(ids)], TRUE)
        ELSE SaveResult(NoErr, up.articles, linked, drew,
                        [deleted EXCEPT !.linkInserts = Len(ids)], FALSE)

-----------------------------------------------------------------------------
(* SpecSave: calls of SaveArticle on a database whose category table is any  *)
(* part of the site's categories.                                            *)

SaveFaults ==
    {"none", "begin", "select", "categories", "upsert", "delete", "lookup", "link", "commit"}

SiteCategories ==
    { CategoryRow(1, WebsiteID, <<"N">>, SlugNews, Href(SlugNews), Null),
      CategoryRow(2, WebsiteID, <<"S">>, SlugSport, Href(SlugSport), Null) }

\* the records handed to SaveArticle: as ScrapeArticle builds them
SaveInputs ==
    {Article(0, <<"T">>, [i \in 1..Len(sl) |-> <<"N">>], <<"A">>, 1, 0, c, UrlA, sl, NoHash) :
        c \in Contents, sl \in SeqsUpTo(Slugs, MaxSaveSlugs)}
    \cup {Article(0, <<"T">>, <<<<"N">>>>, <<"A">>, 1, 0, <<"a">>, UrlB, <<SlugNews>>, NoHash)}

NoSave == [valid |-> FALSE]

InitSave ==
    /\ categories \in SUBSET SiteCategories
    /\ articles = {}
    /\ links = {}
    /\ categorySeq = Cardinality(SiteCategories)
    /\ articleSeq = 0
    /\ lastSave = NoSave
    /\ IdleChange /\ IdleScrape /\ IdleFetch /\ IdleCat /\ IdleRun /\ IdlePs /\ IdleUnit /\ IdleConc /\ IdleExtract

SaveArticleCall ==
    \E a \in SaveInputs, fault \in SaveFaults :
        \E r \in {SaveArticle(categories, articles, links, articleSeq, a, fault)} :
            /\ articles' = r.articles
            /\ links' = r.links
            /\ articleSeq' \in {q \in r.seqs : q <= MaxArticleSeq}
            /\ lastSave' = [valid |-> TRUE, args |-> a, err |-> r.err, ops |-> r.ops,
                            faulted |-> r.faulted,
                            \* the call before this one was the same and returned nil
                            repeat |-> lastSave.valid /\ lastSave.args = a
                                           /\ lastSave.err = NoErr /\ ~lastSave.faulted]
            /\ UNCHANGED <<categories, categorySeq, FrameSave>>

NextSave == SaveArticleCall

SpecSave == InitSave /\ [][NextSave]_vars

\* C1: the second of two successive calls of SaveArticle with the same title,
\* content, author and category slugs leaves exactly one article row for the
\* URL and performs no article write and no delete or insert of links,
\* whatever the category table holds.
C1_SecondSaveIsNoOp ==
    (lastSave.valid /\ lastSave.repeat /\ ~lastSave.faulted) =>
        /\ Cardinality({r \in articles : r.url = lastSave.args.URL}) = 1
        /\ lastSave.ops = NoOps

\* the slugs linked to the article stored for a URL
StoredLinkSlugs(url) ==
    UNION {LinkedSlugs(categories, links, r.id) : r \in {x \in articles : x.url = url}}

\* C12: after a SaveArticle that returned nil, the set of category slugs
\* linked to the article is exactly the set of the article's category slugs.
C12_LinksMirrorSlugs ==
    (lastSave.valid /\ lastSave.err = NoErr /\ ~lastSave.faulted) =>
        StoredLinkSlugs(lastSave.args.URL) = Range(lastSave.args.CategorySlugs)

\* C13: a call of SaveArticle that returns an error leaves go_articles and
\* go_article_categories as they were before the call.
C13_ErrorLeavesTablesUnchanged ==
    [][(lastSave'.valid /\ lastSave'.err # NoErr) =>
           (articles' = articles /\ links' = links)]_vars

\* the link deletion failed after the article row was written in the
\* transaction, on a database that already holds an article and a link
C13_Witness ==
    /\ lastSave.valid
    /\ lastSave.err = "failed to clear existing categories"
    /\ lastSave.ops.articleWrite
    /\ articles # {}
    /\ links # {}
    /\ \A r \in articles : r.url # lastSave.args.URL

-----------------------------------------------------------------------------
(* extractCategoryInfo and findParentID (part_001 lines 168-211) *)

CategoryMarker == <<"c", "a", "t", "e", "g", "o", "r", "y", "/">>

LowerCase ==
    <<"a", "b", "c", "d", "e", "f", "g", "h", "i", "j", "k", "l", "m",
      "n", "o", "p", "q", "r", "s", "t", "u", "v", "w", "x", "y", "z">>
UpperCase ==
    <<"A", "B", "C", "D", "E", "F", "G", "H", "I", "J", "K", "L", "M",
      "N", "O", "P", "Q", "R", "S", "T", "U", "V", "W", "X", "Y", "Z">>
Digits == {"0", "1", "2", "3", "4", "5", "6", "7", "8", "9"}

\* the runes U+00E0..U+00FE but U+00F7, which unicode.ToTitle lowers by 32,
\* then U+00B5 and U+00FF, whose title case lies above U+00FF
LowerLatin1 ==
    <<"à", "á", "â", "ã", "ä", "å", "æ", "ç", "è", "é", "ê", "ë", "ì",
      "í", "î", "ï", "ð", "ñ", "ò", "ó", "ô", "õ", "ö", "ø", "ù", "ú",
      "û", "ü", "ý", "þ",
      "µ", "ÿ">>
UpperLatin1 ==
    <<"À", "Á", "Â", "Ã", "Ä", "Å", "Æ", "Ç", "È", "É", "Ê", "Ë", "Ì",
      "Í", "Î", "Ï", "Ð", "Ñ", "Ò", "Ó", "Ô", "Õ", "Ö", "Ø", "Ù", "Ú",
      "Û", "Ü", "Ý", "Þ",
      "U+039C", "U+0178">>

\* the runes above U+00FF that unicode.ToTitle changes, in code point order
WideCased ==
    <<"U+0101", "U+0103", "U+0105", "U+0107", "U+0109", "U+010B", "U+010D", "U+010F",
      "U+0111", "U+0113", "U+0115", "U+0117", "U+0119", "U+011B", "U+011D", "U+011F",
      "U+0121", "U+0123", "U+0125", "U+0127", "U+0129", "U+012B", "U+012D", "U+012F",
      "U+0131", "U+0133", "U+0135", "U+0137", "U+013A", "U+013C", "U+013E", "U+0140",
      "U+0142", "U+0144", "U+0146", "U+0148", "U+014B", "U+014D", "U+014F", "U+0151",
      "U+0153", "U+0155", "U+0157", "U+0159", "U+015B", "U+015D", "U+015F", "U+0161",
      "U+0163", "U+0165", "U+0167", "U+0169", "U+016B", "U+016D", "U+016F", "U+0171",
      "U+0173", "U+0175", "U+0177", "U+017A", "U+017C", "U+017E", "U+017F", "U+0180",
      "U+0183", "U+0185", "U+0188", "U+018C", "U+0192", "U+0195", "U+0199", "U+019A",
      "U+019E", "U+01A1", "U+01A3", "U+01A5", "U+01A8", "U+01AD", "U+01B0", "U+01B4",
      "U+01B6", "U+01B9", "U+01BD", "U+01BF", "U+01C4", "U+01C6", "U+01C7", "U+01C9",
      "U+01CA", "U+01CC", "U+01CE", "U+01D0", "U+01D2", "U+01D4", "U+01D6", "U+01D8",
      "U+01DA", "U+01DC", "U+01DD", "U+01DF", "U+01E1", "U+01E3", "U+01E5", "U+01E7",
      "U+01E9", "U+01EB", "U+01ED", "U+01EF", "U+01F1", "U+01F3", "U+01F5", "U+01F9",
      "U+01FB", "U+01FD", "U+01FF", "U+0201", "U+0203", "U+0205", "U+0207", "U+0209",
      "U+020B", "U+020D", "U+020F", "U+0211", "U+0213", "U+0215", "U+0217", "U+0219",
      "U+021B", "U+021D", "U+021F", "U+0223", "U+0225", "U+0227", "U+0229", "U+022B",
      "U+022D", "U+022F", "U+0231", "U+0233", "U+023C", "U+023F", "U+0240", "U+0242",
      "U+0247", "U+0249", "U+024B", "U+024D", "U+024F", "U+0250", "U+0251", "U+0252",
      "U+0253", "U+0254", "U+0256", "U+0257", "U+0259", "U+025B", "U+025C", "U+0260",
      "U+0261", "U+0263", "U+0265", "U+0266", "U+0268", "U+0269", "U+026A", "U+026B",
      "U+026C", "U+026F", "U+0271", "U+0272", "U+0275", "U+027D", "U+0280", "U+0282",
      "U+0283", "U+0287", "U+0288", "U+0289", "U+028A", "U+028B", "U+028C", "U+0292",
      "U+029D", "U+029E", "U+0345", "U+0371", "U+0373", "U+0377", "U+037B", "U+037C",
      "U+037D", "U+03AC", "U+03AD", "U+03AE", "U+03AF", "U+03B1", "U+03B2", "U+03B3",
      "U+03B4", "U+03B5", "U+03B6", "U+03B7", "U+03B8", "U+03B9", "U+03BA", "U+03BB",
      "U+03BC", "U+03BD", "U+03BE", "U+03BF", "U+03C0", "U+03C1", "U+03C2", "U+03C3",
      "U+03C4", "U+03C5", "U+03C6", "U+03C7", "U+03C8", "U+03C9", "U+03CA", "U+03CB",
      "U+03CC", "U+03CD", "U+03CE", "U+03D0", "U+03D1", "U+03D5", "U+03D6", "U+03D7",
      "U+03D9", "U+03DB", "U+03DD", "U+03DF", "U+03E1", "U+03E3", "U+03E5", "U+03E7",
      "U+03E9", "U+03EB", "U+03ED", "U+03EF", "U+03F0", "U+03F1", "U+03F2", "U+03F3",
      "U+03F5", "U+03F8", "U+03FB", "U+0430", "U+0431", "U+0432", "U+0433", "U+0434",
      "U+0435", "U+0436", "U+0437", "U+0438", "U+0439", "U+043A", "U+043B", "U+043C",
      "U+043D", "U+043E", "U+043F", "U+0440", "U+0441", "U+0442", "U+0443", "U+0444",
      "U+0445", "U+0446", "U+0447", "U+0448", "U+0449", "U+044A", "U+044B", "U+044C",
      "U+044D", "U+044E", "U+044F", "U+0450", "U+0451", "U+0452", "U+0453", "U+0454",
      "U+0455", "U+0456", "U+0457", "U+0458", "U+0459", "U+045A", "U+045B", "U+045C",
      "U+045D", "U+045E", "U+045F", "U+0461", "U+0463", "U+0465", "U+0467", "U+0469",
      "U+046B", "U+046D", "U+046F", "U+0471", "U+0473", "U+0475", "U+0477", "U+0479",
      "U+047B", "U+047D", "U+047F", "U+0481", "U+048B", "U+048D", "U+048F", "U+0491",
      "U+0493", "U+0495", "U+0497", "U+0499", "U+049B", "U+049D", "U+049F", "U+04A1",
      "U+04A3", "U+04A5", "U+04A7", "U+04A9", "U+04AB", "U+04AD", "U+04AF", "U+04B1",
      "U+04B3", "U+04B5", "U+04B7", "U+04B9", "U+04BB", "U+04BD", "U+04BF", "U+04C2",
      "U+04C4", "U+04C6", "U+04C8", "U+04CA", "U+04CC", "U+04CE", "U+04CF", "U+04D1",
      "U+04D3", "U+04D5", "U+04D7", "U+04D9", "U+04DB", "U+04DD", "U+04DF", "U+04E1",
      "U+04E3", "U+04E5", "U+04E7", "U+04E9", "U+04EB", "U+04ED", "U+04EF", "U+04F1",
      "U+04F3", "U+04F5", "U+04F7", "U+04F9", "U+04FB", "U+04FD", "U+04FF", "U+0501",
      "U+0503", "U+0505", "U+0507", "U+0509", "U+050B", "U+050D", "U+050F", "U+0511",
      "U+0513", "U+0515", "U+0517", "U+0519", "U+051B", "U+051D", "U+051F", "U+0521",
      "U+0523", "U+0525", "U+0527", "U+0529", "U+052B", "U+052D", "U+052F", "U+0561",
      "U+0562", "U+0563", "U+0564", "U+0565", "U+0566", "U+0567", "U+0568", "U+0569",
      "U+056A", "U+056B", "U+056C", "U+056D", "U+056E", "U+056F", "U+0570", "U+0571",
      "U+0572", "U+0573", "U+0574", "U+0575", "U+0576", "U+0577", "U+0578", "U+0579",
      "U+057A", "U+057B", "U+057C", "U+057D", "U+057E", "U+057F", "U+0580", "U+0581",
      "U+0582", "U+0583", "U+0584", "U+0585", "U+0586", "U+13F8", "U+13F9", "U+13FA",
      "U+13FB", "U+13FC", "U+13FD", "U+1C80", "U+1C81", "U+1C82", "U+1C83", "U+1C84",
      "U+1C85", "U+1C86", "U+1C87", "U+1C88", "U+1D79", "U+1D7D", "U+1D8E", "U+1E01",
      "U+1E03", "U+1E05", "U+1E07", "U+1E09", "U+1E0B", "U+1E0D", "U+1E0F", "U+1E11",
      "U+1E13", "U+1E15", "U+1E17", "U+1E19", "U+1E1B", "U+1E1D", "U+1E1F", "U+1E21",
      "U+1E23", "U+1E25", "U+1E27", "U+1E29", "U+1E2B", "U+1E2D", "U+1E2F", "U+1E31",
      "U+1E33", "U+1E35", "U+1E37", "U+1E39", "U+1E3B", "U+1E3D", "U+1E3F", "U+1E41",
      "U+1E43", "U+1E45", "U+1E47", "U+1E49", "U+1E4B", "U+1E4D", "U+1E4F", "U+1E51",
      "U+1E53", "U+1E55", "U+1E57", "U+1E59", "U+1E5B", "U+1E5D", "U+1E5F", "U+1E61",
      "U+1E63", "U+1E65", "U+1E67", "U+1E69", "U+1E6B", "U+1E6D", "U+1E6F", "U+1E71",
      "U+1E73", "U+1E75", "U+1E77", "U+1E79", "U+1E7B", "U+1E7D", "U+1E7F", "U+1E81",
      "U+1E83", "U+1E85", "U+1E87", "U+1E89", "U+1E8B", "U+1E8D", "U+1E8F", "U+1E91",
      "U+1E93", "U+1E95", "U+1E9B", "U+1EA1", "U+1EA3", "U+1EA5", "U+1EA7", "U+1EA9",
      "U+1EAB", "U+1EAD", "U+1EAF", "U+1EB1", "U+1EB3", "U+1EB5", "U+1EB7", "U+1EB9",
      "U+1EBB", "U+1EBD", "U+1EBF", "U+1EC1", "U+1EC3", "U+1EC5", "U+1EC7", "U+1EC9",
      "U+1ECB", "U+1ECD", "U+1ECF", "U+1ED1", "U+1ED3", "U+1ED5", "U+1ED7", "U+1ED9",
      "U+1EDB", "U+1EDD", "U+1EDF", "U+1EE1", "U+1EE3", "U+1EE5", "U+1EE7", "U+1EE9",
      "U+1EEB", "U+1EED", "U+1EEF", "U+1EF1", "U+1EF3", "U+1EF5", "U+1EF7", "U+1EF9",
      "U+1EFB", "U+1EFD", "U+1EFF", "U+1F00", "U+1F01", "U+1F02", "U+1F03", "U+1F04",
      "U+1F05", "U+1F06", "U+1F07", "U+1F10", "U+1F11", "U+1F12", "U+1F13", "U+1F14",
      "U+1F15", "U+1F20", "U+1F21", "U+1F22", "U+1F23", "U+1F24", "U+1F25", "U+1F26",
      "U+1F27", "U+1F30", "U+1F31", "U+1F32", "U+1F33", "U+1F34", "U+1F35", "U+1F36",
      "U+1F37", "U+1F40", "U+1F41", "U+1F42", "U+1F43", "U+1F44", "U+1F45", "U+1F51",
      "U+1F53", "U+1F55", "U+1F57", "U+1F60", "U+1F61", "U+1F62", "U+1F63", "U+1F64",
      "U+1F65", "U+1F66", "U+1F67", "U+1F70", "U+1F71", "U+1F72", "U+1F73", "U+1F74",
      "U+1F75", "U+1F76", "U+1F77", "U+1F78", "U+1F79", "U+1F7A", "U+1F7B", "U+1F7C",
      "U+1F7D", "U+1F80", "U+1F81", "U+1F82", "U+1F83", "U+1F84", "U+1F85", "U+1F86",
      "U+1F87", "U+1F90", "U+1F91", "U+1F92", "U+1F93", "U+1F94", "U+1F95", "U+1F96",
      "U+1F97", "U+1FA0", "U+1FA1", "U+1FA2", "U+1FA3", "U+1FA4", "U+1FA5", "U+1FA6",
      "U+1FA7", "U+1FB0", "U+1FB1", "U+1FB3", "U+1FBE", "U+1FC3", "U+1FD0", "U+1FD1",
      "U+1FE0", "U+1FE1", "U+1FE5", "U+1FF3", "U+214E", "U+2170", "U+2171", "U+2172",
      "U+2173", "U+2174", "U+2175", "U+2176", "U+2177", "U+2178", "U+2179", "U+217A",
      "U+217B", "U+217C", "U+217D", "U+217E", "U+217F", "U+2184", "U+24D0", "U+24D1",
      "U+24D2", "U+24D3", "U+24D4", "U+24D5", "U+24D6", "U+24D7", "U+24D8", "U+24D9",
      "U+24DA", "U+24DB", "U+24DC", "U+24DD", "U+24DE", "U+24DF", "U+24E0", "U+24E1",
      "U+24E2", "U+24E3", "U+24E4", "U+24E5", "U+24E6", "U+24E7", "U+24E8", "U+24E9",
      "U+2C30", "U+2C31", "U+2C32", "U+2C33", "U+2C34", "U+2C35", "U+2C36", "U+2C37",
      "U+2C38", "U+2C39", "U+2C3A", "U+2C3B", "U+2C3C", "U+2C3D", "U+2C3E", "U+2C3F",
      "U+2C40", "U+2C41", "U+2C42", "U+2C43", "U+2C44", "U+2C45", "U+2C46", "U+2C47",
      "U+2C48", "U+2C49", "U+2C4A", "U+2C4B", "U+2C4C", "U+2C4D", "U+2C4E", "U+2C4F",
      "U+2C50", "U+2C51", "U+2C52", "U+2C53", "U+2C54", "U+2C55", "U+2C56", "U+2C57",
      "U+2C58", "U+2C59", "U+2C5A", "U+2C5B", "U+2C5C", "U+2C5D", "U+2C5E", "U+2C5F",
      "U+2C61", "U+2C65", "U+2C66", "U+2C68", "U+2C6A", "U+2C6C", "U+2C73", "U+2C76",
      "U+2C81", "U+2C83", "U+2C85", "U+2C87", "U+2C89", "U+2C8B", "U+2C8D", "U+2C8F",
      "U+2C91", "U+2C93", "U+2C95", "U+2C97", "U+2C99", "U+2C9B", "U+2C9D", "U+2C9F",
      "U+2CA1", "U+2CA3", "U+2CA5", "U+2CA7", "U+2CA9", "U+2CAB", "U+2CAD", "U+2CAF",
      "U+2CB1", "U+2CB3", "U+2CB5", "U+2CB7", "U+2CB9", "U+2CBB", "U+2CBD", "U+2CBF",
      "U+2CC1", "U+2CC3", "U+2CC5", "U+2CC7", "U+2CC9", "U+2CCB", "U+2CCD", "U+2CCF",
      "U+2CD1", "U+2CD3", "U+2CD5", "U+2CD7", "U+2CD9", "U+2CDB", "U+2CDD", "U+2CDF",
      "U+2CE1", "U+2CE3", "U+2CEC", "U+2CEE", "U+2CF3", "U+2D00", "U+2D01", "U+2D02",
      "U+2D03", "U+2D04", "U+2D05", "U+2D06", "U+2D07", "U+2D08", "U+2D09", "U+2D0A",
      "U+2D0B", "U+2D0C", "U+2D0D", "U+2D0E", "U+2D0F", "U+2D10", "U+2D11", "U+2D12",
      "U+2D13", "U+2D14", "U+2D15", "U+2D16", "U+2D17", "U+2D18", "U+2D19", "U+2D1A",
      "U+2D1B", "U+2D1C", "U+2D1D", "U+2D1E", "U+2D1F", "U+2D20", "U+2D21", "U+2D22",
      "U+2D23", "U+2D24", "U+2D25", "U+2D27", "U+2D2D", "U+A641", "U+A643", "U+A645",
      "U+A647", "U+A649", "U+A64B", "U+A64D", "U+A64F", "U+A651", "U+A653", "U+A655",
      "U+A657", "U+A659", "U+A65B", "U+A65D", "U+A65F", "U+A661", "U+A663", "U+A665",
      "U+A667", "U+A669", "U+A66B", "U+A66D", "U+A681", "U+A683", "U+A685", "U+A687",
      "U+A689", "U+A68B", "U+A68D", "U+A68F", "U+A691", "U+A693", "U+A695", "U+A697",
      "U+A699", "U+A69B", "U+A723", "U+A725", "U+A727", "U+A729", "U+A72B", "U+A72D",
      "U+A72F", "U+A733", "U+A735", "U+A737", "U+A739", "U+A73B", "U+A73D", "U+A73F",
      "U+A741", "U+A743", "U+A745", "U+A747", "U+A749", "U+A74B", "U+A74D", "U+A74F",
      "U+A751", "U+A753", "U+A755", "U+A757", "U+A759", "U+A75B", "U+A75D", "U+A75F",
      "U+A761", "U+A763", "U+A765", "U+A767", "U+A769", "U+A76B", "U+A76D", "U+A76F",
      "U+A77A", "U+A77C", "U+A77F", "U+A781", "U+A783", "U+A785", "U+A787", "U+A78C",
      "U+A791", "U+A793", "U+A794", "U+A797", "U+A799", "U+A79B", "U+A79D", "U+A79F",
      "U+A7A1", "U+A7A3", "U+A7A5", "U+A7A7", "U+A7A9", "U+A7B5", "U+A7B7", "U+A7B9",
      "U+A7BB", "U+A7BD", "U+A7BF", "U+A7C1", "U+A7C3", "U+A7C8", "U+A7CA", "U+A7D1",
      "U+A7D7", "U+A7D9", "U+A7F6", "U+AB53", "U+AB70", "U+AB71", "U+AB72", "U+AB73",
      "U+AB74", "U+AB75", "U+AB76", "U+AB77", "U+AB78", "U+AB79", "U+AB7A", "U+AB7B",
      "U+AB7C", "U+AB7D", "U+AB7E", "U+AB7F", "U+AB80", "U+AB81", "U+AB82", "U+AB83",
      "U+AB84", "U+AB85", "U+AB86", "U+AB87", "U+AB88", "U+AB89", "U+AB8A", "U+AB8B",
      "U+AB8C", "U+AB8D", "U+AB8E", "U+AB8F", "U+AB90", "U+AB91", "U+AB92", "U+AB93",
      "U+AB94", "U+AB95", "U+AB96", "U+AB97", "U+AB98", "U+AB99", "U+AB9A", "U+AB9B",
      "U+AB9C", "U+AB9D", "U+AB9E", "U+AB9F", "U+ABA0", "U+ABA1", "U+ABA2", "U+ABA3",
      "U+ABA4", "U+ABA5", "U+ABA6", "U+ABA7", "U+ABA8", "U+ABA9", "U+ABAA", "U+ABAB",
      "U+ABAC", "U+ABAD", "U+ABAE", "U+ABAF", "U+ABB0", "U+ABB1", "U+ABB2", "U+ABB3",
      "U+ABB4", "U+ABB5", "U+ABB6", "U+ABB7", "U+ABB8", "U+ABB9", "U+ABBA", "U+ABBB",
      "U+ABBC", "U+ABBD", "U+ABBE", "U+ABBF", "U+FF41", "U+FF42", "U+FF43", "U+FF44",
      "U+FF45", "U+FF46", "U+FF47", "U+FF48", "U+FF49", "U+FF4A", "U+FF4B", "U+FF4C",
      "U+FF4D", "U+FF4E", "U+FF4F", "U+FF50", "U+FF51", "U+FF52", "U+FF53", "U+FF54",
      "U+FF55", "U+FF56", "U+FF57", "U+FF58", "U+FF59", "U+FF5A", "U+10428", "U+10429",
      "U+1042A", "U+1042B", "U+1042C", "U+1042D", "U+1042E", "U+1042F", "U+10430", "U+10431",
      "U+10432", "U+10433", "U+10434", "U+10435", "U+10436", "U+10437", "U+10438", "U+10439",
      "U+1043A", "U+1043B", "U+1043C", "U+1043D", "U+1043E", "U+1043F", "U+10440", "U+10441",
      "U+10442", "U+10443", "U+10444", "U+10445", "U+10446", "U+10447", "U+10448", "U+10449",
      "U+1044A", "U+1044B", "U+1044C", "U+1044D", "U+1044E", "U+1044F", "U+104D8", "U+104D9",
      "U+104DA", "U+104DB", "U+104DC", "U+104DD", "U+104DE", "U+104DF", "U+104E0", "U+104E1",
      "U+104E2", "U+104E3", "U+104E4", "U+104E5", "U+104E6", "U+104E7", "U+104E8", "U+104E9",
      "U+104EA", "U+104EB", "U+104EC", "U+104ED", "U+104EE", "U+104EF", "U+104F0", "U+104F1",
      "U+104F2", "U+104F3", "U+104F4", "U+104F5", "U+104F6", "U+104F7", "U+104F8", "U+104F9",
      "U+104FA", "U+104FB", "U+10597", "U+10598", "U+10599", "U+1059A", "U+1059B", "U+1059C",
      "U+1059D", "U+1059E", "U+1059F", "U+105A0", "U+105A1", "U+105A3", "U+105A4", "U+105A5",
      "U+105A6", "U+105A7", "U+105A8", "U+105A9", "U+105AA", "U+105AB", "U+105AC", "U+105AD",
      "U+105AE", "U+105AF", "U+105B0", "U+105B1", "U+105B3", "U+105B4", "U+105B5", "U+105B6",
      "U+105B7", "U+105B8", "U+105B9", "U+105BB", "U+105BC", "U+10CC0", "U+10CC1", "U+10CC2",
      "U+10CC3", "U+10CC4", "U+10CC5", "U+10CC6", "U+10CC7", "U+10CC8", "U+10CC9", "U+10CCA",
      "U+10CCB", "U+10CCC", "U+10CCD", "U+10CCE", "U+10CCF", "U+10CD0", "U+10CD1", "U+10CD2",
      "U+10CD3", "U+10CD4", "U+10CD5", "U+10CD6", "U+10CD7", "U+10CD8", "U+10CD9", "U+10CDA",
      "U+10CDB", "U+10CDC", "U+10CDD", "U+10CDE", "U+10CDF", "U+10CE0", "U+10CE1", "U+10CE2",
      "U+10CE3", "U+10CE4", "U+10CE5", "U+10CE6", "U+10CE7", "U+10CE8", "U+10CE9", "U+10CEA",
      "U+10CEB", "U+10CEC", "U+10CED", "U+10CEE", "U+10CEF", "U+10CF0", "U+10CF1", "U+10CF2",
      "U+118C0", "U+118C1", "U+118C2", "U+118C3", "U+118C4", "U+118C5", "U+118C6", "U+118C7",
      "U+118C8", "U+118C9", "U+118CA", "U+118CB", "U+118CC", "U+118CD", "U+118CE", "U+118CF",
      "U+118D0", "U+118D1", "U+118D2", "U+118D3", "U+118D4", "U+118D5", "U+118D6", "U+118D7",
      "U+118D8", "U+118D9", "U+118DA", "U+118DB", "U+118DC", "U+118DD", "U+118DE", "U+118DF",
      "U+16E60", "U+16E61", "U+16E62", "U+16E63", "U+16E64", "U+16E65", "U+16E66", "U+16E67",
      "U+16E68", "U+16E69", "U+16E6A", "U+16E6B", "U+16E6C", "U+16E6D", "U+16E6E", "U+16E6F",
      "U+16E70", "U+16E71", "U+16E72", "U+16E73", "U+16E74", "U+16E75", "U+16E76", "U+16E77",
      "U+16E78", "U+16E79", "U+16E7A", "U+16E7B", "U+16E7C", "U+16E7D", "U+16E7E", "U+16E7F",
      "U+1E922", "U+1E923", "U+1E924", "U+1E925", "U+1E926", "U+1E927", "U+1E928", "U+1E929",
      "U+1E92A", "U+1E92B", "U+1E92C", "U+1E92D", "U+1E92E", "U+1E92F", "U+1E930", "U+1E931",
      "U+1E932", "U+1E933", "U+1E934", "U+1E935", "U+1E936", "U+1E937", "U+1E938", "U+1E939",
      "U+1E93A", "U+1E93B", "U+1E93C", "U+1E93D", "U+1E93E", "U+1E93F", "U+1E940", "U+1E941",
      "U+1E942", "U+1E943">>

\* what unicode.ToTitle gives for each of them, in the same order
WideTitle ==
    <<"U+0100", "U+0102", "U+0104", "U+0106", "U+0108", "U+010A", "U+010C", "U+010E",
      "U+0110", "U+0112", "U+0114", "U+0116", "U+0118", "U+011A", "U+011C", "U+011E",
      "U+0120", "U+0122", "U+0124", "U+0126", "U+0128", "U+012A", "U+012C", "U+012E",
      "I", "U+0132", "U+0134", "U+0136", "U+0139", "U+013B", "U+013D", "U+013F",
      "U+0141", "U+0143", "U+0145", "U+0147", "U+014A", "U+014C", "U+014E", "U+0150",
      "U+0152", "U+0154", "U+0156", "U+0158", "U+015A", "U+015C", "U+015E", "U+0160",
      "U+0162", "U+0164", "U+0166", "U+0168", "U+016A", "U+016C", "U+016E", "U+0170",
      "U+0172", "U+0174", "U+0176", "U+0179", "U+017B", "U+017D", "S", "U+0243",
      "U+0182", "U+0184", "U+0187", "U+018B", "U+0191", "U+01F6", "U+0198", "U+023D",
      "U+0220", "U+01A0", "U+01A2", "U+01A4", "U+01A7", "U+01AC", "U+01AF", "U+01B3",
      "U+01B5", "U+01B8", "U+01BC", "U+01F7", "U+01C5", "U+01C5", "U+01C8", "U+01C8",
      "U+01CB", "U+01CB", "U+01CD", "U+01CF", "U+01D1", "U+01D3", "U+01D5", "U+01D7",
      "U+01D9", "U+01DB", "U+018E", "U+01DE", "U+01E0", "U+01E2", "U+01E4", "U+01E6",
      "U+01E8", "U+01EA", "U+01EC", "U+01EE", "U+01F2", "U+01F2", "U+01F4", "U+01F8",
      "U+01FA", "U+01FC", "U+01FE", "U+0200", "U+0202", "U+0204", "U+0206", "U+0208",
      "U+020A", "U+020C", "U+020E", "U+0210", "U+0212", "U+0214", "U+0216", "U+0218",
      "U+021A", "U+021C", "U+021E", "U+0222", "U+0224", "U+0226", "U+0228", "U+022A",
      "U+022C", "U+022E", "U+0230", "U+0232", "U+023B", "U+2C7E", "U+2C7F", "U+0241",
      "U+0246", "U+0248", "U+024A", "U+024C", "U+024E", "U+2C6F", "U+2C6D", "U+2C70",
      "U+0181", "U+0186", "U+0189", "U+018A", "U+018F", "U+0190", "U+A7AB", "U+0193",
      "U+A7AC", "U+0194", "U+A78D", "U+A7AA", "U+0197", "U+0196", "U+A7AE", "U+2C62",
      "U+A7AD", "U+019C", "U+2C6E", "U+019D", "U+019F", "U+2C64", "U+01A6", "U+A7C5",
      "U+01A9", "U+A7B1", "U+01AE", "U+0244", "U+01B1", "U+01B2", "U+0245", "U+01B7",
      "U+A7B2", "U+A7B0", "U+0399", "U+0370", "U+0372", "U+0376", "U+03FD", "U+03FE",
      "U+03FF", "U+0386", "U+0388", "U+0389", "U+038A", "U+0391", "U+0392", "U+0393",
      "U+0394", "U+0395", "U+0396", "U+0397", "U+0398", "U+0399", "U+039A", "U+039B",
      "U+039C", "U+039D", "U+039E", "U+039F", "U+03A0", "U+03A1", "U+03A3", "U+03A3",
      "U+03A4", "U+03A5", "U+03A6", "U+03A7", "U+03A8", "U+03A9", "U+03AA", "U+03AB",
      "U+038C", "U+038E", "U+038F", "U+0392", "U+0398", "U+03A6", "U+03A0", "U+03CF",
      "U+03D8", "U+03DA", "U+03DC", "U+03DE", "U+03E0", "U+03E2", "U+03E4", "U+03E6",
      "U+03E8", "U+03EA", "U+03EC", "U+03EE", "U+039A", "U+03A1", "U+03F9", "U+037F",
      "U+0395", "U+03F7", "U+03FA", "U+0410", "U+0411", "U+0412", "U+0413", "U+0414",
      "U+0415", "U+0416", "U+0417", "U+0418", "U+0419", "U+041A", "U+041B", "U+041C",
      "U+041D", "U+041E", "U+041F", "U+0420", "U+0421", "U+0422", "U+0423", "U+0424",
      "U+0425", "U+0426", "U+0427", "U+0428", "U+0429", "U+042A", "U+042B", "U+042C",
      "U+042D", "U+042E", "U+042F", "U+0400", "U+0401", "U+0402", "U+0403", "U+0404",
      "U+0405", "U+0406", "U+0407", "U+0408", "U+0409", "U+040A", "U+040B", "U+040C",
      "U+040D", "U+040E", "U+040F", "U+0460", "U+0462", "U+0464", "U+0466", "U+0468",
      "U+046A", "U+046C", "U+046E", "U+0470", "U+0472", "U+0474", "U+0476", "U+0478",
      "U+047A", "U+047C", "U+047E", "U+0480", "U+048A", "U+048C", "U+048E", "U+0490",
      "U+0492", "U+0494", "U+0496", "U+0498", "U+049A", "U+049C", "U+049E", "U+04A0",
      "U+04A2", "U+04A4", "U+04A6", "U+04A8", "U+04AA", "U+04AC", "U+04AE", "U+04B0",
      "U+04B2", "U+04B4", "U+04B6", "U+04B8", "U+04BA", "U+04BC", "U+04BE", "U+04C1",
      "U+04C3", "U+04C5", "U+04C7", "U+04C9", "U+04CB", "U+04CD", "U+04C0", "U+04D0",
      "U+04D2", "U+04D4", "U+04D6", "U+04D8", "U+04DA", "U+04DC", "U+04DE", "U+04E0",
      "U+04E2", "U+04E4", "U+04E6", "U+04E8", "U+04EA", "U+04EC", "U+04EE", "U+04F0",
      "U+04F2", "U+04F4", "U+04F6", "U+04F8", "U+04FA", "U+04FC", "U+04FE", "U+0500",
      "U+0502", "U+0504", "U+0506", "U+0508", "U+050A", "U+050C", "U+050E", "U+0510",
      "U+0512", "U+0514", "U+0516", "U+0518", "U+051A", "U+051C", "U+051E", "U+0520",
      "U+0522", "U+0524", "U+0526", "U+0528", "U+052A", "U+052C", "U+052E", "U+0531",
      "U+0532", "U+0533", "U+0534", "U+0535", "U+0536", "U+0537", "U+0538", "U+0539",
      "U+053A", "U+053B", "U+053C", "U+053D", "U+053E", "U+053F", "U+0540", "U+0541",
      "U+0542", "U+0543", "U+0544", "U+0545", "U+0546", "U+0547", "U+0548", "U+0549",
      "U+054A", "U+054B", "U+054C", "U+054D", "U+054E", "U+054F", "U+0550", "U+0551",
      "U+0552", "U+0553", "U+0554", "U+0555", "U+0556", "U+13F0", "U+13F1", "U+13F2",
      "U+13F3", "U+13F4", "U+13F5", "U+0412", "U+0414", "U+041E", "U+0421", "U+0422",
      "U+0422", "U+042A", "U+0462", "U+A64A", "U+A77D", "U+2C63", "U+A7C6", "U+1E00",
      "U+1E02", "U+1E04", "U+1E06", "U+1E08", "U+1E0A", "U+1E0C", "U+1E0E", "U+1E10",
      "U+1E12", "U+1E14", "U+1E16", "U+1E18", "U+1E1A", "U+1E1C", "U+1E1E", "U+1E20",
      "U+1E22", "U+1E24", "U+1E26", "U+1E28", "U+1E2A", "U+1E2C", "U+1E2E", "U+1E30",
      "U+1E32", "U+1E34", "U+1E36", "U+1E38", "U+1E3A", "U+1E3C", "U+1E3E", "U+1E40",
      "U+1E42", "U+1E44", "U+1E46", "U+1E48", "U+1E4A", "U+1E4C", "U+1E4E", "U+1E50",
      "U+1E52", "U+1E54", "U+1E56", "U+1E58", "U+1E5A", "U+1E5C", "U+1E5E", "U+1E60",
      "U+1E62", "U+1E64", "U+1E66", "U+1E68", "U+1E6A", "U+1E6C", "U+1E6E", "U+1E70",
      "U+1E72", "U+1E74", "U+1E76", "U+1E78", "U+1E7A", "U+1E7C", "U+1E7E", "U+1E80",
      "U+1E82", "U+1E84", "U+1E86", "U+1E88", "U+1E8A", "U+1E8C", "U+1E8E", "U+1E90",
      "U+1E92", "U+1E94", "U+1E60", "U+1EA0", "U+1EA2", "U+1EA4", "U+1EA6", "U+1EA8",
      "U+1EAA", "U+1EAC", "U+1EAE", "U+1EB0", "U+1EB2", "U+1EB4", "U+1EB6", "U+1EB8",
      "U+1EBA", "U+1EBC", "U+1EBE", "U+1EC0", "U+1EC2", "U+1EC4", "U+1EC6", "U+1EC8",
      "U+1ECA", "U+1ECC", "U+1ECE", "U+1ED0", "U+1ED2", "U+1ED4", "U+1ED6", "U+1ED8",
      "U+1EDA", "U+1EDC", "U+1EDE", "U+1EE0", "U+1EE2", "U+1EE4", "U+1EE6", "U+1EE8",
      "U+1EEA", "U+1EEC", "U+1EEE", "U+1EF0", "U+1EF2", "U+1EF4", "U+1EF6", "U+1EF8",
      "U+1EFA", "U+1EFC", "U+1EFE", "U+1F08", "U+1F09", "U+1F0A", "U+1F0B", "U+1F0C",
      "U+1F0D", "U+1F0E", "U+1F0F", "U+1F18", "U+1F19", "U+1F1A", "U+1F1B", "U+1F1C",
      "U+1F1D", "U+1F28", "U+1F29", "U+1F2A", "U+1F2B", "U+1F2C", "U+1F2D", "U+1F2E",
      "U+1F2F", "U+1F38", "U+1F39", "U+1F3A", "U+1F3B", "U+1F3C", "U+1F3D", "U+1F3E",
      "U+1F3F", "U+1F48", "U+1F49", "U+1F4A", "U+1F4B", "U+1F4C", "U+1F4D", "U+1F59",
      "U+1F5B", "U+1F5D", "U+1F5F", "U+1F68", "U+1F69", "U+1F6A", "U+1F6B", "U+1F6C",
      "U+1F6D", "U+1F6E", "U+1F6F", "U+1FBA", "U+1FBB", "U+1FC8", "U+1FC9", "U+1FCA",
      "U+1FCB", "U+1FDA", "U+1FDB", "U+1FF8", "U+1FF9", "U+1FEA", "U+1FEB", "U+1FFA",
      "U+1FFB", "U+1F88", "U+1F89", "U+1F8A", "U+1F8B", "U+1F8C", "U+1F8D", "U+1F8E",
      "U+1F8F", "U+1F98", "U+1F99", "U+1F9A", "U+1F9B", "U+1F9C", "U+1F9D", "U+1F9E",
      "U+1F9F", "U+1FA8", "U+1FA9", "U+1FAA", "U+1FAB", "U+1FAC", "U+1FAD", "U+1FAE",
      "U+1FAF", "U+1FB8", "U+1FB9", "U+1FBC", "U+0399", "U+1FCC", "U+1FD8", "U+1FD9",
      "U+1FE8", "U+1FE9", "U+1FEC", "U+1FFC", "U+2132", "U+2160", "U+2161", "U+2162",
      "U+2163", "U+2164", "U+2165", "U+2166", "U+2167", "U+2168", "U+2169", "U+216A",
      "U+216B", "U+216C", "U+216D", "U+216E", "U+216F", "U+2183", "U+24B6", "U+24B7",
      "U+24B8", "U+24B9", "U+24BA", "U+24BB", "U+24BC", "U+24BD", "U+24BE", "U+24BF",
      "U+24C0", "U+24C1", "U+24C2", "U+24C3", "U+24C4", "U+24C5", "U+24C6", "U+24C7",
      "U+24C8", "U+24C9", "U+24CA", "U+24CB", "U+24CC", "U+24CD", "U+24CE", "U+24CF",
      "U+2C00", "U+2C01", "U+2C02", "U+2C03", "U+2C04", "U+2C05", "U+2C06", "U+2C07",
      "U+2C08", "U+2C09", "U+2C0A", "U+2C0B", "U+2C0C", "U+2C0D", "U+2C0E", "U+2C0F",
      "U+2C10", "U+2C11", "U+2C12", "U+2C13", "U+2C14", "U+2C15", "U+2C16", "U+2C17",
      "U+2C18", "U+2C19", "U+2C1A", "U+2C1B", "U+2C1C", "U+2C1D", "U+2C1E", "U+2C1F",
      "U+2C20", "U+2C21", "U+2C22", "U+2C23", "U+2C24", "U+2C25", "U+2C26", "U+2C27",
      "U+2C28", "U+2C29", "U+2C2A", "U+2C2B", "U+2C2C", "U+2C2D", "U+2C2E", "U+2C2F",
      "U+2C60", "U+023A", "U+023E", "U+2C67", "U+2C69", "U+2C6B", "U+2C72", "U+2C75",
      "U+2C80", "U+2C82", "U+2C84", "U+2C86", "U+2C88", "U+2C8A", "U+2C8C", "U+2C8E",
      "U+2C90", "U+2C92", "U+2C94", "U+2C96", "U+2C98", "U+2C9A", "U+2C9C", "U+2C9E",
      "U+2CA0", "U+2CA2", "U+2CA4", "U+2CA6", "U+2CA8", "U+2CAA", "U+2CAC", "U+2CAE",
      "U+2CB0", "U+2CB2", "U+2CB4", "U+2CB6", "U+2CB8", "U+2CBA", "U+2CBC", "U+2CBE",
      "U+2CC0", "U+2CC2", "U+2CC4", "U+2CC6", "U+2CC8", "U+2CCA", "U+2CCC", "U+2CCE",
      "U+2CD0", "U+2CD2", "U+2CD4", "U+2CD6", "U+2CD8", "U+2CDA", "U+2CDC", "U+2CDE",
      "U+2CE0", "U+2CE2", "U+2CEB", "U+2CED", "U+2CF2", "U+10A0", "U+10A1", "U+10A2",
      "U+10A3", "U+10A4", "U+10A5", "U+10A6", "U+10A7", "U+10A8", "U+10A9", "U+10AA",
      "U+10AB", "U+10AC", "U+10AD", "U+10AE", "U+10AF", "U+10B0", "U+10B1", "U+10B2",
      "U+10B3", "U+10B4", "U+10B5", "U+10B6", "U+10B7", "U+10B8", "U+10B9", "U+10BA",
      "U+10BB", "U+10BC", "U+10BD", "U+10BE", "U+10BF", "U+10C0", "U+10C1", "U+10C2",
      "U+10C3", "U+10C4", "U+10C5", "U+10C7", "U+10CD", "U+A640", "U+A642", "U+A644",
      "U+A646", "U+A648", "U+A64A", "U+A64C", "U+A64E", "U+A650", "U+A652", "U+A654",
      "U+A656", "U+A658", "U+A65A", "U+A65C", "U+A65E", "U+A660", "U+A662", "U+A664",
      "U+A666", "U+A668", "U+A66A", "U+A66C", "U+A680", "U+A682", "U+A684", "U+A686",
      "U+A688", "U+A68A", "U+A68C", "U+A68E", "U+A690", "U+A692", "U+A694", "U+A696",
      "U+A698", "U+A69A", "U+A722", "U+A724", "U+A726", "U+A728", "U+A72A", "U+A72C",
      "U+A72E", "U+A732", "U+A734", "U+A736", "U+A738", "U+A73A", "U+A73C", "U+A73E",
      "U+A740", "U+A742", "U+A744", "U+A746", "U+A748", "U+A74A", "U+A74C", "U+A74E",
      "U+A750", "U+A752", "U+A754", "U+A756", "U+A758", "U+A75A", "U+A75C", "U+A75E",
      "U+A760", "U+A762", "U+A764", "U+A766", "U+A768", "U+A76A", "U+A76C", "U+A76E",
      "U+A779", "U+A77B", "U+A77E", "U+A780", "U+A782", "U+A784", "U+A786", "U+A78B",
      "U+A790", "U+A792", "U+A7C4", "U+A796", "U+A798", "U+A79A", "U+A79C", "U+A79E",
      "U+A7A0", "U+A7A2", "U+A7A4", "U+A7A6", "U+A7A8", "U+A7B4", "U+A7B6", "U+A7B8",
      "U+A7BA", "U+A7BC", "U+A7BE", "U+A7C0", "U+A7C2", "U+A7C7", "U+A7C9", "U+A7D0",
      "U+A7D6", "U+A7D8", "U+A7F5", "U+A7B3", "U+13A0", "U+13A1", "U+13A2", "U+13A3",
      "U+13A4", "U+13A5", "U+13A6", "U+13A7", "U+13A8", "U+13A9", "U+13AA", "U+13AB",
      "U+13AC", "U+13AD", "U+13AE", "U+13AF", "U+13B0", "U+13B1", "U+13B2", "U+13B3",
      "U+13B4", "U+13B5", "U+13B6", "U+13B7", "U+13B8", "U+13B9", "U+13BA", "U+13BB",
      "U+13BC", "U+13BD", "U+13BE", "U+13BF", "U+13C0", "U+13C1", "U+13C2", "U+13C3",
      "U+13C4", "U+13C5", "U+13C6", "U+13C7", "U+13C8", "U+13C9", "U+13CA", "U+13CB",
      "U+13CC", "U+13CD", "U+13CE", "U+13CF", "U+13D0", "U+13D1", "U+13D2", "U+13D3",
      "U+13D4", "U+13D5", "U+13D6", "U+13D7", "U+13D8", "U+13D9", "U+13DA", "U+13DB",
      "U+13DC", "U+13DD", "U+13DE", "U+13DF", "U+13E0", "U+13E1", "U+13E2", "U+13E3",
      "U+13E4", "U+13E5", "U+13E6", "U+13E7", "U+13E8", "U+13E9", "U+13EA", "U+13EB",
      "U+13EC", "U+13ED", "U+13EE", "U+13EF", "U+FF21", "U+FF22", "U+FF23", "U+FF24",
      "U+FF25", "U+FF26", "U+FF27", "U+FF28", "U+FF29", "U+FF2A", "U+FF2B", "U+FF2C",
      "U+FF2D", "U+FF2E", "U+FF2F", "U+FF30", "U+FF31", "U+FF32", "U+FF33", "U+FF34",
      "U+FF35", "U+FF36", "U+FF37", "U+FF38", "U+FF39", "U+FF3A", "U+10400", "U+10401",
      "U+10402", "U+10403", "U+10404", "U+10405", "U+10406", "U+10407", "U+10408", "U+10409",
      "U+1040A", "U+1040B", "U+1040C", "U+1040D", "U+1040E", "U+1040F", "U+10410", "U+10411",
      "U+10412", "U+10413", "U+10414", "U+10415", "U+10416", "U+10417", "U+10418", "U+10419",
      "U+1041A", "U+1041B", "U+1041C", "U+1041D", "U+1041E", "U+1041F", "U+10420", "U+10421",
      "U+10422", "U+10423", "U+10424", "U+10425", "U+10426", "U+10427", "U+104B0", "U+104B1",
      "U+104B2", "U+104B3", "U+104B4", "U+104B5", "U+104B6", "U+104B7", "U+104B8", "U+104B9",
      "U+104BA", "U+104BB", "U+104BC", "U+104BD", "U+104BE", "U+104BF", "U+104C0", "U+104C1",
      "U+104C2", "U+104C3", "U+104C4", "U+104C5", "U+104C6", "U+104C7", "U+104C8", "U+104C9",
      "U+104CA", "U+104CB", "U+104CC", "U+104CD", "U+104CE", "U+104CF", "U+104D0", "U+104D1",
      "U+104D2", "U+104D3", "U+10570", "U+10571", "U+10572", "U+10573", "U+10574", "U+10575",
      "U+10576", "U+10577", "U+10578", "U+10579", "U+1057A", "U+1057C", "U+1057D", "U+1057E",
      "U+1057F", "U+10580", "U+10581", "U+10582", "U+10583", "U+10584", "U+10585", "U+10586",
      "U+10587", "U+10588", "U+10589", "U+1058A", "U+1058C", "U+1058D", "U+1058E", "U+1058F",
      "U+10590", "U+10591", "U+10592", "U+10594", "U+10595", "U+10C80", "U+10C81", "U+10C82",
      "U+10C83", "U+10C84", "U+10C85", "U+10C86", "U+10C87", "U+10C88", "U+10C89", "U+10C8A",
      "U+10C8B", "U+10C8C", "U+10C8D", "U+10C8E", "U+10C8F", "U+10C90", "U+10C91", "U+10C92",
      "U+10C93", "U+10C94", "U+10C95", "U+10C96", "U+10C97", "U+10C98", "U+10C99", "U+10C9A",
      "U+10C9B", "U+10C9C", "U+10C9D", "U+10C9E", "U+10C9F", "U+10CA0", "U+10CA1", "U+10CA2",
      "U+10CA3", "U+10CA4", "U+10CA5", "U+10CA6", "U+10CA7", "U+10CA8", "U+10CA9", "U+10CAA",
      "U+10CAB", "U+10CAC", "U+10CAD", "U+10CAE", "U+10CAF", "U+10CB0", "U+10CB1", "U+10CB2",
      "U+118A0", "U+118A1", "U+118A2", "U+118A3", "U+118A4", "U+118A5", "U+118A6", "U+118A7",
      "U+118A8", "U+118A9", "U+118AA", "U+118AB", "U+118AC", "U+118AD", "U+118AE", "U+118AF",
      "U+118B0", "U+118B1", "U+118B2", "U+118B3", "U+118B4", "U+118B5", "U+118B6", "U+118B7",
      "U+118B8", "U+118B9", "U+118BA", "U+118BB", "U+118BC", "U+118BD", "U+118BE", "U+118BF",
      "U+16E40", "U+16E41", "U+16E42", "U+16E43", "U+16E44", "U+16E45", "U+16E46", "U+16E47",
      "U+16E48", "U+16E49", "U+16E4A", "U+16E4B", "U+16E4C", "U+16E4D", "U+16E4E", "U+16E4F",
      "U+16E50", "U+16E51", "U+16E52", "U+16E53", "U+16E54", "U+16E55", "U+16E56", "U+16E57",
      "U+16E58", "U+16E59", "U+16E5A", "U+16E5B", "U+16E5C", "U+16E5D", "U+16E5E", "U+16E5F",
      "U+1E900", "U+1E901", "U+1E902", "U+1E903", "U+1E904", "U+1E905", "U+1E906", "U+1E907",
      "U+1E908", "U+1E909", "U+1E90A", "U+1E90B", "U+1E90C", "U+1E90D", "U+1E90E", "U+1E90F",
      "U+1E910", "U+1E911", "U+1E912", "U+1E913", "U+1E914", "U+1E915", "U+1E916", "U+1E917",
      "U+1E918", "U+1E919", "U+1E91A", "U+1E91B", "U+1E91C", "U+1E91D", "U+1E91E", "U+1E91F",
      "U+1E920", "U+1E921">>

\* the runes above U+00FF that unicode.ToTitle changes, as a set
WideCasedSet == Range(WideCased)

\* unicode.ToTitle
ToUpper(c) ==
    LET from == LowerCase \o LowerLatin1
        to == UpperCase \o UpperLatin1
    IN  IF \E k \in 1..Len(from) : from[k] = c
        THEN to[CHOOSE k \in 1..Len(from) : from[k] = c]
        ELSE IF c \in WideCasedSet
        THEN WideTitle[CHOOSE k \in 1..Len(WideCased) : WideCased[k] = c]
        ELSE c

\* the ASCII characters that are no letter, digit or underscore: the control
\* characters U+0000..U+001F and U+007F, then the space and the punctuation
AsciiSeparators ==
    {"U+0000", "", "", "", "", "", "", "", "", "\t", "\n", "", "\f",
     "\r", "", "", "", "", "", "", "", "", "", "", "",
     "", "", "", "", "", "", "", "",
     " ", "!", "\"", "#", "$", "%", "&", "'", "(", ")", "*", "+",
     ",", "-", ".", "/", ":", ";", "<", "=", ">", "?", "@", "[",
     "\\", "]", "^", "U+0060", "{", "|", "}", "~"}

\* strings.isSeparator: in ASCII anything but a letter, a digit or an underscore;
\* above U+007F only white space
IsSeparator(c) == c \in AsciiSeparators \/ IsSpace(c)

\* strings.Title
TitleCase(s) ==
    [k \in 1..Len(s) |-> IF k = 1 \/ IsSeparator(s[k - 1]) THEN ToUpper(s[k]) ELSE s[k]]

\* strings.ReplaceAll for one-character old and new
ReplaceAll(s, old, new) == [k \in 1..Len(s) |-> IF s[k] = old THEN new ELSE s[k]]

Unknown == [name |-> <<"U", "n", "k", "n", "o", "w", "n">>,
            slug |-> <<"u", "n", "k", "n", "o", "w", "n">>]

extractCategoryInfo(url) ==
    LET u == IF url[Len(url)] = "/" THEN SubSeq(url, 1, Len(url) - 1) ELSE url
        parts == Split(u, CategoryMarker)
    IN  IF Len(parts) # 2 THEN Unknown
        ELSE [name |-> TitleCase(ReplaceAll(parts[2], "-", " ")), slug |-> parts[2]]

\* line 200: everything before the last '/'
ParentSlug(slug) ==
    LET parts == Split(slug, Slash)
    IN  Join(SubSeq(parts, 1, Len(parts) - 1), Slash)

HasParentSlug(slug) == Len(Split(slug, Slash)) # 1

\* A plausible slip: a missing parent row is reported as the query's error.
findParentIDStrict(cats, slug, queryFails) ==
    IF ~HasParentSlug(slug) THEN [id |-> 0, err |-> NoErr]
    ELSE LET ids == CategoryIdsFor(cats, WebsiteID, ParentSlug(slug))
         IN  IF queryFails THEN [id |-> 0, err |-> "query failed"]
             ELSE IF ids = {} THEN [id |-> 0, err |-> "sql: no rows in result set"]
             ELSE [id |-> CHOOSE i \in ids : TRUE, err |-> NoErr]

\* A plausible slip: the lookup is made with currentSlug, not parentSlug.
findParentIDOfSelf(cats, slug, queryFails) ==
    IF ~HasParentSlug(slug) THEN [id |-> 0, err |-> NoErr]
    ELSE LET ids == CategoryIdsFor(cats, WebsiteID, slug)
         IN  IF queryFails THEN [id |-> 0, err |-> "query failed"]
             ELSE IF ids = {} THEN [id |-> 0, err |-> NoErr]
             ELSE [id |-> CHOOSE i \in ids : TRUE, err |-> NoErr]

\* cats is the table as the transaction sees it; queryFails: the SELECT fails
findParentID(cats, slug, queryFails) ==
    IF ~HasParentSlug(slug) THEN [id |-> 0, err |-> NoErr]
    ELSE LET ids == CategoryIdsFor(cats, WebsiteID, ParentSlug(slug))
         IN  IF queryFails THEN [id |-> 0, err |-> "query failed"]
             ELSE IF ids = {} THEN [id |-> 0, err |-> NoErr]
             ELSE [id |-> CHOOSE i \in ids : TRUE, err |-> NoErr]

\* part_001 lines 112-128 and 146-152: INSERT ... ON CONFLICT (website_id, slug)
\* DO UPDATE SET name, url, parent_id; parent_id is NULL unless parentID > 0
\* drawn is the value the statement drew from the sequence of go_categories.id
UpsertCategory(cats, drawn, name, slug, url, parentID) ==
    LET old == {r \in cats : r.website_id = WebsiteID /\ r.slug = slug}
        id == IF old = {} THEN drawn ELSE (CHOOSE r \in old : TRUE).id
        parent == IF parentID > 0 THEN parentID ELSE Null
    IN  (cats \ old) \cup {CategoryRow(id, WebsiteID, name, slug, url, parent)}

-----------------------------------------------------------------------------
(* SpecCat: runs of ScrapeCategories (part_001 lines 86-166) on a database   *)
(* that starts empty.  catTx is the open transaction: the table as it sees   *)
(* it, and whether a failed statement has aborted it.                        *)

Loc(slug) == Host \o Slash \o CategoryMarker \o slug \o Slash
LocAbout == Host \o Slash \o <<"a", "b", "o", "u", "t", "/">>

CategoryLocs == {Loc(SlugNews), Loc(SlugNewsPolitics), LocAbout}
CategorySitemaps == SeqsUpTo(CategoryLocs, MaxCatEntries)

InitCat ==
    /\ categories = {}
    /\ articles = {}
    /\ links = {}
    /\ categorySeq = 0
    /\ articleSeq = 0
    /\ catPc = "idle"
    /\ catEntries = <<>>
    /\ catIdx = 0
    /\ catTx = [cats |-> {}, aborted |-> FALSE]
    /\ catLast = [valid |-> FALSE]
    /\ catRuns = 0
    /\ IdleChange /\ IdleScrape /\ IdleFetch /\ IdleSave /\ IdleRun /\ IdlePs /\ IdleUnit /\ IdleConc /\ IdleExtract

\* lines 86-132: the sitemap is fetched, read and parsed, the transaction begun
CatStart ==
    /\ catPc \in {"idle", "committed", "failed"}
    /\ catRuns < MaxCatRuns
    /\ \E entries \in CategorySitemaps :
          /\ catEntries' = entries
          /\ catIdx' = 1
          /\ catTx' = [cats |-> categories, aborted |-> FALSE]
          /\ catPc' = "loop"
    /\ catRuns' = catRuns + 1
    /\ catLast' = [valid |-> FALSE]
    /\ UNCHANGED <<categories, categorySeq, FrameCat>>

\* lines 90-131: the fetch, the read, the parse, Begin or Prepare fails
CatStartFails ==
    /\ catPc \in {"idle", "committed", "failed"}
    /\ catRuns < MaxCatRuns
    /\ catPc' = "failed"
    /\ catRuns' = catRuns + 1
    /\ catLast' = [valid |-> FALSE]
    /\ UNCHANGED <<categories, categorySeq, catEntries, catIdx, catTx, FrameCat>>

\* lines 134-158: one entry of the sitemap
CatEntry ==
    /\ catPc = "loop"
    /\ catIdx <= Len(catEntries)
    /\ \E fault \in {"none", "lookup", "insert"} :
          LET url == catEntries[catIdx]
              info == extractCategoryInfo(url)
              lookupFails == HasParentSlug(info.slug) /\ (catTx.aborted \/ fault = "lookup")
              parent == findParentID(catTx.cats, info.slug, lookupFails)
              insertFails == catTx.aborted \/ lookupFails \/ fault = "insert"
              upserted == parent.err = NoErr /\ ~insertFails
              \* the INSERT reached the server in a transaction that takes it
              executed == parent.err = NoErr /\ ~catTx.aborted /\ ~lookupFails
          IN  /\ categorySeq' \in IF executed THEN SeqAfter(categorySeq, insertFails)
                                            ELSE {categorySeq}
              /\ catTx' = [cats |-> IF upserted
                                     THEN UpsertCategory(catTx.cats, Nextval(categorySeq),
                                                         info.name, info.slug, url, parent.id)
                                     ELSE catTx.cats,
                           aborted |-> catTx.aborted \/ lookupFails
                                           \/ (parent.err = NoErr /\ insertFails)]
              /\ catLast' = [valid |-> TRUE, slug |-> info.slug,
                             hasParentSlug |-> HasParentSlug(info.slug),
                             parentRowExists |->
                                 CategoryIdsFor(catTx.cats, WebsiteID, ParentSlug(info.slug)) # {},
                             storageFault |-> catTx.aborted \/ fault # "none",
                             parent |-> parent,
                             outcome |-> IF upserted THEN "upserted" ELSE "skipped"]
    /\ catIdx' = catIdx + 1
    /\ UNCHANGED <<categories, catPc, catEntries, catRuns, FrameCat>>

\* lines 160-165: Commit
CatCommit ==
    /\ catPc = "loop"
    /\ catIdx > Len(catEntries)
    /\ ~catTx.aborted
    /\ categories' = catTx.cats
    /\ catPc' = "committed"
    /\ UNCHANGED <<categorySeq, catEntries, catIdx, catTx, catLast, catRuns, FrameCat>>

\* lines 160-162: Commit fails (always, once a statement has failed)
CatCommitFails ==
    /\ catPc = "loop"
    /\ catIdx > Len(catEntries)
    /\ catPc' = "failed"
    /\ UNCHANGED <<categories, categorySeq, catEntries, catIdx, catTx, catLast, catRuns, FrameCat>>

NextCat == CatStart \/ CatStartFails \/ CatEntry \/ CatCommit \/ CatCommitFails

SpecCat == InitCat /\ [][NextCat]_vars

\* C9: whenever rows for the slugs "news" and "news/politics" of a website are
\* both in storage, the parent of the "news/politics" row is the "news" row.
C9_ChildPointsToParent ==
    \A c, q \in categories :
        (c.website_id = q.website_id /\ c.slug = SlugNewsPolitics /\ q.slug = SlugNews)
            => c.parent_id = q.id

\* C10: an entry whose parent slug has no row is not an error: findParentID
\* reports no parent and no error and the entry is upserted with a null
\* parent_id (no statement of the transaction having failed).
C10_MissingParentIsRoot ==
    ( /\ catLast.valid
      /\ catLast.hasParentSlug
      /\ ~catLast.parentRowExists
      /\ ~catLast.storageFault )
    => /\ catLast.parent = [id |-> 0, err |-> NoErr]
       /\ catLast.outcome = "upserted"
       /\ \E r \in catTx.cats :
             r.website_id = WebsiteID /\ r.slug = catLast.slug /\ r.parent_id = Null

\* "news/politics" met before any "news" row, and committed as a root category
C10_Witness ==
    /\ catPc = "committed"
    /\ catLast.valid
    /\ catLast.slug = SlugNewsPolitics
    /\ ~catLast.parentRowExists
    /\ ~catLast.storageFault
    /\ catLast.outcome = "upserted"
    /\ \E r \in categories : r.slug = SlugNewsPolitics /\ r.parent_id = Null

\* C16: a run of ScrapeCategories in which the lookup or the insert of an
\* entry failed still commits, and the rows of the entries that succeeded
\* are persisted.
C16_FailedEntryIsSkipped ==
    (catPc \in {"committed", "failed"} /\ catLast.valid /\ catTx.aborted) =>
        /\ catPc = "committed"
        /\ catTx.cats \subseteq categories

\* following parent_id from row r reaches a root within n steps
RECURSIVE ReachesRoot(_, _, _)
ReachesRoot(cats, r, n) ==
    IF r.parent_id = Null THEN TRUE
    ELSE IF n = 0 THEN FALSE
    ELSE \E q \in cats : q.id = r.parent_id /\ ReachesRoot(cats, q, n - 1)

ParentsWellFormed(cats) ==
    \A r \in cats :
        /\ r.parent_id # Null =>
              \E q \in cats : /\ q.id = r.parent_id
                              /\ q.website_id = r.website_id
                              /\ HasParentSlug(r.slug)
                              /\ q.slug = ParentSlug(r.slug)
        /\ ReachesRoot(cats, r, Cardinality(cats))

\* C11: in the committed table and in the table as the open transaction sees
\* it, every row with a parent_id references an existing row of the same
\* website whose slug is the child's slug less its last segment, and the
\* parent relation has no cycle.
C11_ParentsExist ==
    /\ ParentsWellFormed(categories)
    /\ ParentsWellFormed(catTx.cats)

\* "news/politics" is committed with the "news" row as its parent
C11_Witness ==
    /\ catPc = "committed"
    /\ \E c, q \in categories :
          /\ c.slug = SlugNewsPolitics
          /\ q.slug = SlugNews
          /\ c.parent_id = q.id
          /\ c.parent_id # Null

-----------------------------------------------------------------------------
(* go_sitemaps and insertURLBatch (part_000 lines 231-269).  Rows are        *)
(* [website_id, article_url, last_mod, is_valid, status_code], unique on     *)
(* (website_id, article_url); created_at and last_checked are not modelled.  *)

maxWorkers == 3
batchSize == 100

DigitChars == <<"1", "2", "3", "4", "5", "6", "7", "8", "9">>
ArticleUrl(k) == <<"/", "a", DigitChars[k]>>
SitemapUrl(k) == <<"/", "s", DigitChars[k]>>

\* A plausible slip: a plain INSERT on a table without the unique constraint.
InsertSitemapRow(rows, site, loc, lastMod, status, now) ==
    rows \cup {[website_id |-> site, article_url |-> loc, last_mod |-> lastMod,
                created_at |-> now, is_valid |-> TRUE, status_code |-> status,
                         last_checked |-> now]}

\* A plausible slip: the conflict branch also takes the last_mod the sitemap
\* reports now.
UpsertSitemapRowAllColumns(rows, site, loc, lastMod, status, now) ==
    LET old == {r \in rows : r.website_id = site /\ r.article_url = loc}
    IN  IF old = {}
        THEN rows \cup {[website_id |-> site, article_url |-> loc, last_mod |-> lastMod,
                         created_at |-> now, is_valid |-> TRUE, status_code |-> status,
                         last_checked |-> now]}
        ELSE (rows \ old) \cup
                 {[r EXCEPT !.last_mod = lastMod, !.status_code = status, !.is_valid = TRUE,
                            !.last_checked = now] : r \in old}

\* INSERT ... ON CONFLICT (website_id, article_url) DO UPDATE SET
\* last_checked, status_code, is_valid; now is the transaction's NOW()
UpsertSitemapRow(rows, site, loc, lastMod, status, now) ==
    LET old == {r \in rows : r.website_id = site /\ r.article_url = loc}
    IN  IF old = {}
        THEN rows \cup {[website_id |-> site, article_url |-> loc, last_mod |-> lastMod,
                         created_at |-> now, is_valid |-> TRUE, status_code |-> status,
                         last_checked |-> now]}
        ELSE (rows \ old) \cup
                 {[r EXCEPT !.status_code = status, !.is_valid = TRUE,
                            !.last_checked = now] : r \in old}

\* no statement is made to fail
NoFail == 0

\* lines 254-267: stmt.Exec for each entry of batch in order (the loop is
\* unfolded by halves: the first half's entries, then the second half's)
RECURSIVE ExecEach(_, _, _, _, _)
ExecEach(rows, batch, site, status, now) ==
    IF batch = <<>> THEN rows
    ELSE IF Len(batch) = 1
    THEN UpsertSitemapRow(rows, site, batch[1].Loc, ParseDate(batch[1].LastMod), status, now)
    ELSE LET h == Len(batch) \div 2
             mid == ExecEach(rows, SubSeq(batch, 1, h), site, status, now)
         IN  \* (the test makes the first half's table a value before the second half runs)
             IF mid = {} THEN ExecEach({}, SubSeq(batch, h + 1, Len(batch)), site, status, now)
             ELSE ExecEach(mid, SubSeq(batch, h + 1, Len(batch)), site, status, now)

\* tx is the open transaction: the table as it sees it, and whether a failed
\* statement has aborted it.  failAt is the place in the batch of the entry
\* whose Exec fails (NoFail: none).  On an aborted transaction Prepare fails.
insertURLBatch(tx, batch, site, status, now, failAt) ==
    IF tx.aborted
    THEN [tx |-> tx, err |-> "failed to prepare batch statement"]
    ELSE IF failAt = NoFail
    THEN [tx |-> [tx EXCEPT !.rows = ExecEach(tx.rows, batch, site, status, now)],
          err |-> NoErr]
    ELSE [tx |-> [rows |-> ExecEach(tx.rows, SubSeq(batch, 1, failAt - 1), site, status, now),
                  aborted |-> TRUE],
          err |-> "failed to execute batch insert"]

\* part_000 lines 202-219: the entries in batches of batchSize, in order; an
\* error of insertURLBatch is logged and the loop goes on.  errs collects the
\* error of each batch; failAt is the place in entries of the failing Exec.
RECURSIVE InsertInBatches(_, _, _, _, _, _, _)
InsertInBatches(tx, entries, site, status, now, failAt, errs) ==
    IF entries = <<>> THEN [tx |-> tx, errs |-> errs]
    ELSE LET n == IF Len(entries) < batchSize THEN Len(entries) ELSE batchSize
             r == insertURLBatch(tx, SubSeq(entries, 1, n), site, status, now,
                                 IF failAt >= 1 /\ failAt <= n THEN failAt ELSE NoFail)
         IN  InsertInBatches(r.tx, SubSeq(entries, n + 1, Len(entries)), site, status, now,
                             IF failAt > n THEN failAt - n ELSE NoFail,
                             Append(errs, r.err))

\* processSitemap after the fetch (part_000 lines 157-228).  fault.kind names
\* the step that fails: "none", "read", "parse", "begin", "prepare", "insert"
\* (the Exec of entry fault.at) or "commit".
NoFault == [kind |-> "none", at |-> NoFail]

processSitemap(rows, entries, status, now, fault) ==
    LET r == InsertInBatches([rows |-> rows, aborted |-> FALSE], entries, WebsiteID, status,
                             now, IF fault.kind = "insert" THEN fault.at ELSE NoFail, <<>>)
    IN  IF fault.kind = "read"
        THEN [err |-> "failed to read response body", rows |-> rows, errs |-> <<>>]
        ELSE IF fault.kind = "parse"
        THEN [err |-> "failed to parse XML", rows |-> rows, errs |-> <<>>]
        ELSE IF fault.kind = "begin"
        THEN [err |-> "failed to begin transaction", rows |-> rows, errs |-> <<>>]
        ELSE IF fault.kind = "prepare"
        THEN [err |-> "failed to prepare statement", rows |-> rows, errs |-> <<>>]
        ELSE IF r.tx.aborted \/ fault.kind = "commit"
        THEN [err |-> "failed to commit transaction", rows |-> rows, errs |-> r.errs]
        ELSE [err |-> NoErr, rows |-> r.tx.rows, errs |-> r.errs]

\* the document served for sitemap k: the first two list their own article
\* and one that the third lists too, the third that one alone, the others
\* no url
SitemapDoc(k) ==
    IF k <= 2
    THEN << [Loc |-> ArticleUrl(k), LastMod |-> "2024-01-01T00:00:00Z"],
            [Loc |-> ArticleUrl(1), LastMod |-> ""] >>
    ELSE IF k = 3
    THEN << [Loc |-> ArticleUrl(1), LastMod |-> ""] >>
    ELSE << >>

-----------------------------------------------------------------------------
(* SpecSitemap: calls of processSitemap one after the other on a table that  *)
(* starts empty.  Each call is one transaction, begun at the time psClock.   *)

\* fmt's %d
RECURSIVE Decimal(_)
Decimal(n) ==
    LET d == <<"0", "1", "2", "3", "4", "5", "6", "7", "8", "9">>
    IN  IF n < 10 THEN <<d[n + 1]>> ELSE Decimal(n \div 10) \o <<d[(n % 10) + 1]>>

EntryA == [Loc |-> ArticleUrl(1), LastMod |-> "2024-01-01T00:00:00Z"]
EntryB == [Loc |-> ArticleUrl(2), LastMod |-> ""]
EntryC == [Loc |-> ArticleUrl(3), LastMod |-> BadDate]
\* the url of EntryA with a later lastmod
EntryD == [Loc |-> ArticleUrl(1), LastMod |-> "2024-01-02T00:00:00Z"]

\* a document of one entry more than a batch holds
LongDoc == [k \in 1..(batchSize + 1) |-> [Loc |-> <<"/", "b">> \o Decimal(k), LastMod |-> ""]]

PsDocs ==
    { <<>>, <<EntryA>>, <<EntryB, EntryC>>, <<EntryA, EntryB, EntryC>>,
      <<EntryB, EntryB>>, <<EntryC, EntryA>>, <<EntryD>>, LongDoc }

PsStatusCodes == {200, 404}

\* the steps of a call that can fail; an Exec can fail at the first entry, at
\* the last entry of the first batch and at the last entry
PsFaults(entries) ==
    {[kind |-> k, at |-> NoFail] : k \in {"none", "read", "parse", "begin", "prepare", "commit"}}
    \cup {[kind |-> "insert", at |-> i] :
             i \in {j \in {1, batchSize, Len(entries)} : j <= Len(entries)}}

NoCall == [valid |-> FALSE]

InitSitemap ==
    /\ psClock = 1
    /\ psLast = NoCall
    /\ IdleChange /\ IdleScrape /\ IdleFetch /\ IdleDb /\ IdleSave /\ IdleCat /\ IdleRun
    /\ IdleUnit /\ IdleConc /\ IdleExtract

ProcessSitemapCall ==
    /\ psClock <= MaxSitemapCalls
    /\ \E entries \in PsDocs, status \in PsStatusCodes :
          \E fault \in PsFaults(entries) :
              \E r \in {processSitemap(sitemaps, entries, status, psClock, fault)} :
                  /\ sitemaps' = r.rows
                  /\ psLast' = [valid |-> TRUE, entries |-> entries, status |-> status,
                                fault |-> fault, err |-> r.err, errs |-> r.errs,
                                now |-> psClock, rowsBefore |-> Cardinality(sitemaps)]
    /\ psClock' = psClock + 1
    /\ UNCHANGED FramePs

NextSitemap == ProcessSitemapCall

SpecSitemap == InitSitemap /\ [][NextSitemap]_vars

SameKey(r, q) == r.website_id = q.website_id /\ r.article_url = q.article_url

\* C14: go_sitemaps holds one row per (website_id, article_url) and loses no
\* row; a call of processSitemap that commits leaves exactly the rows of the
\* URLs stored before and of the URLs of its entries: the rows of its entries
\* carry the call's time, status code and is_valid (a row stored before has
\* its last_checked advanced and its last_mod kept), the other rows are as
\* they were.
C14_OneRowPerUrl ==
    [][ /\ Cardinality({<<r.website_id, r.article_url>> : r \in sitemaps'}) =
               Cardinality(sitemaps')
        /\ {<<r.website_id, r.article_url>> : r \in sitemaps} \subseteq
               {<<q.website_id, q.article_url>> : q \in sitemaps'}
        /\ (psLast'.valid /\ psLast'.err = NoErr) =>
              LET locs == {e.Loc : e \in Range(psLast'.entries)}
              IN  /\ Cardinality(sitemaps') =
                         Cardinality({r.article_url : r \in sitemaps} \cup locs)
                  /\ \A q \in sitemaps' :
                        IF q.article_url \in locs
                        THEN /\ q.website_id = WebsiteID
                             /\ q.last_checked = psLast'.now
                             /\ q.status_code = psLast'.status
                             /\ q.is_valid
                             /\ \A r \in sitemaps :
                                   SameKey(r, q) => /\ r.last_checked < q.last_checked
                                                    /\ r.last_mod = q.last_mod
                        ELSE q \in sitemaps
      ]_vars

\* three entries, one of them stored before the call, give three rows
C14_Witness ==
    /\ psLast.valid
    /\ psLast.err = NoErr
    /\ psLast.entries = <<EntryA, EntryB, EntryC>>
    /\ psLast.rowsBefore = 1
    /\ Cardinality(sitemaps) = 3

\* C24: a sitemap entry sighted again for a stored (website_id, article_url)
\* changes only last_checked, status_code and is_valid of the row: last_mod
\* and created_at keep the values of the first sighting, even when the
\* sitemap now reports another lastmod.
C24_SightingKeepsLastMod ==
    [][\A r \in sitemaps, q \in sitemaps' :
           SameKey(r, q) => /\ q.last_mod = r.last_mod
                            /\ q.created_at = r.created_at]_vars

\* a committed call whose entry reports another lastmod than the row stored
\* by an earlier call, which the call has touched
C24_Witness ==
    /\ psLast.valid
    /\ psLast.err = NoErr
    /\ \E r \in sitemaps, i \in 1..Len(psLast.entries) :
          /\ r.article_url = psLast.entries[i].Loc
          /\ r.created_at < psLast.now
          /\ r.last_checked = psLast.now
          /\ ParseDate(psLast.entries[i].LastMod) # r.last_mod

\* the batch that holds entry i (0 is the first batch)
BatchOf(i) == (i - 1) \div batchSize

\* the call wrote a row for the URL
WrittenByLastCall(loc) ==
    \E r \in sitemaps : r.article_url = loc /\ r.last_checked = psLast.now

\* C17: when the Exec of an entry fails, no entry of that entry's batch is
\* persisted and the entries of every other batch of the sitemap are.
C17_BatchesAreIndependent ==
    (psLast.valid /\ psLast.fault.kind = "insert") =>
        \A i \in 1..Len(psLast.entries) :
            WrittenByLastCall(psLast.entries[i].Loc)
                <=> (BatchOf(i) # BatchOf(psLast.fault.at))

-----------------------------------------------------------------------------
(* SpecRun: one run of the sitemap scraper (part_000 lines 70-228) or of the *)
(* article scraper (cmd/article_scraper/main.go lines 42-124).               *)

Goroutines == 1..NumSitemaps
\* no call of fetchWithRetry is under way
NoFetch == [pc |-> "none"]
\* NOW() during a run: a run is one tick of the clock
RunClock == 1
\* the status the site answers for sitemap k, when it answers
ServedStatus(k) == IF k = 2 THEN 404 ELSE 200
RunTransportErrors == {"timeout"}
\* the sitemaps whose requests can fail at transport level
FlakySitemaps == {1}

\* the sitemaps whose processing can fail
FaultySitemaps == {2}

\* no transaction is open.  Of an open transaction: whether a failed
\* statement has aborted it, the rows it has written and not yet committed,
\* and the place in the document of the entry it handles next
NoTx == [open |-> FALSE, aborted |-> FALSE, rows |-> {}, next |-> 0]

\* n sitemaps are to be processed
InitSitemapRunOf(n) ==
    /\ prog = "sitemap_scraper"
    /\ mainPc = "spawn"
    /\ wg = 0
    /\ sitemaps = {}
    /\ spawned = 0
    /\ gpc = [g \in 1..n |-> "unborn"]
    /\ gfw = [g \in 1..n |-> NoFetch]
    /\ gresp = [g \in 1..n |-> NoResp]
    /\ gtx = [g \in 1..n |-> NoTx]
    /\ gerr = [g \in 1..n |-> NoErr]
    /\ semaphore = 0
    /\ completed = 0
    /\ urls = <<>> /\ closed = FALSE /\ toSend = <<>> /\ wpc = <<>> /\ wurl = <<>>
    /\ sent = <<>> /\ recvd = <<>>
    /\ IdleDb
    /\ IdleChange /\ IdleScrape /\ IdleFetch /\ IdleSave /\ IdleCat /\ IdlePs /\ IdleUnit /\ IdleConc /\ IdleExtract

InitSitemapRun == InitSitemapRunOf(NumSitemaps)

\* A plausible slip: the goroutine does not wait for a free slot.
SemaphoreHasRoomAlways(n) == TRUE

\* line 101, 122: a send on a channel of capacity maxWorkers
SemaphoreHasRoom(n) == n < maxWorkers

\* lines 117-133: wg.Add(1); go func(url)
SmSpawn ==
    /\ prog = "sitemap_scraper"
    /\ mainPc = "spawn"
    /\ spawned < Len(gpc)
    /\ spawned' = spawned + 1
    /\ wg' = wg + 1
    /\ gpc' = [gpc EXCEPT ![spawned + 1] = "acquire"]
    /\ UNCHANGED <<sitemaps, prog, mainPc, gfw, gresp, gerr, gtx, semaphore, completed,
                   varsArticleRun, varsDb, FrameRun>>

\* line 136: wg.Wait() is reached
SmSpawned ==
    /\ prog = "sitemap_scraper"
    /\ mainPc = "spawn"
    /\ spawned = Len(gpc)
    /\ mainPc' = "wait"
    /\ UNCHANGED <<sitemaps, prog, wg, varsSitemapRun, varsArticleRun, varsDb, FrameRun>>

\* line 122: semaphore <- struct{}{}; then processSitemap calls fetchWithRetry
SmAcquire(g) ==
    /\ gpc[g] = "acquire"
    /\ SemaphoreHasRoom(semaphore)
    /\ semaphore' = semaphore + 1
    /\ gpc' = [gpc EXCEPT ![g] = "fetch"]
    /\ gfw' = [gfw EXCEPT ![g] = FwCall(SitemapUrl(g))]
    /\ UNCHANGED <<sitemaps, prog, mainPc, wg, spawned, gresp, gerr, gtx, completed,
                   varsArticleRun, varsDb, FrameRun>>

SmGetStart(g) ==
    /\ gpc[g] = "fetch"
    /\ gfw[g].pc = "loop"
    /\ FwLoopCond(gfw[g])
    /\ gfw' = [gfw EXCEPT ![g] = FwGetStart(gfw[g])]
    /\ UNCHANGED <<sitemaps, prog, mainPc, wg, spawned, gpc, gresp, gerr, gtx, semaphore, completed,
                   varsArticleRun, varsDb, FrameRun>>

\* client.Get returns a response: fetchWithRetry returns it to processSitemap
SmGetResponse(g) ==
    /\ gpc[g] = "fetch"
    /\ FwInFlight(gfw[g])
    /\ \E r \in {FwGetEnd(gfw[g], Response(ServedStatus(g)))} :
          /\ FwReturned(r)
          /\ gresp' = [gresp EXCEPT ![g] = r.result.status]
    /\ gfw' = [gfw EXCEPT ![g] = NoFetch]
    /\ gpc' = [gpc EXCEPT ![g] = "process"]
    /\ UNCHANGED <<sitemaps, prog, mainPc, wg, spawned, gerr, gtx, semaphore, completed,
                   varsArticleRun, varsDb, FrameRun>>

SmGetError(g) ==
    /\ gpc[g] = "fetch"
    /\ g \in FlakySitemaps
    /\ FwInFlight(gfw[g])
    /\ \E e \in RunTransportErrors :
          gfw' = [gfw EXCEPT ![g] = FwGetEnd(gfw[g], TransportError(e))]
    /\ UNCHANGED <<sitemaps, prog, mainPc, wg, spawned, gpc, gresp, gerr, gtx, semaphore, completed,
                   varsArticleRun, varsDb, FrameRun>>

SmSleep(g) ==
    /\ gpc[g] = "fetch"
    /\ gfw[g].pc = "sleep"
    /\ gfw' = [gfw EXCEPT ![g] = FwSleep(gfw[g])]
    /\ UNCHANGED <<sitemaps, prog, mainPc, wg, spawned, gpc, gresp, gerr, gtx, semaphore, completed,
                   varsArticleRun, varsDb, FrameRun>>

\* fetchWithRetry gives up: processSitemap returns "failed to fetch sitemap"
SmGiveUp(g) ==
    /\ gpc[g] = "fetch"
    /\ gfw[g].pc = "loop"
    /\ ~FwLoopCond(gfw[g])
    /\ FwFailed(FwGiveUp(gfw[g]))
    /\ gfw' = [gfw EXCEPT ![g] = NoFetch]
    /\ gerr' = [gerr EXCEPT ![g] = "failed to fetch sitemap"]
    /\ gpc' = [gpc EXCEPT ![g] = "release"]
    /\ UNCHANGED <<sitemaps, prog, mainPc, wg, spawned, gresp, gtx, semaphore, completed,
                   varsArticleRun, varsDb, FrameRun>>

\* part_000 lines 159-170: the body is read and parsed
SmReadBody(g) ==
    /\ gpc[g] = "process"
    /\ gpc' = [gpc EXCEPT ![g] = "begin"]
    /\ UNCHANGED <<sitemaps, prog, mainPc, wg, spawned, gfw, gresp, gtx, gerr, semaphore,
                   completed, varsArticleRun, varsDb, FrameRun>>

\* lines 167-170: the XML is malformed, processSitemap returns the error,
\* which line 130 logs
SmParseFails(g) ==
    /\ gpc[g] = "process"
    /\ g \in FaultySitemaps
    /\ gerr' = [gerr EXCEPT ![g] = "failed to parse XML"]
    /\ gpc' = [gpc EXCEPT ![g] = "release"]
    /\ gresp' = [gresp EXCEPT ![g] = NoResp]
    /\ UNCHANGED <<sitemaps, prog, mainPc, wg, spawned, gfw, gtx, semaphore, completed,
                   varsArticleRun, varsDb, FrameRun>>

\* line 173: db.Begin()
SmBegin(g) ==
    /\ gpc[g] = "begin"
    /\ gtx' = [gtx EXCEPT ![g] = [open |-> TRUE, aborted |-> FALSE, rows |-> {}, next |-> 1]]
    /\ gpc' = [gpc EXCEPT ![g] = "prepare"]
    /\ UNCHANGED <<sitemaps, prog, mainPc, wg, spawned, gfw, gresp, gerr, semaphore,
                   completed, varsArticleRun, varsDb, FrameRun>>

\* the last entry of the batch that holds entry i of sitemap g's document
BatchEnd(g, i) ==
    LET last == (BatchOf(i) + 1) * batchSize
    IN  IF last < Len(SitemapDoc(g)) THEN last ELSE Len(SitemapDoc(g))

\* lines 202-224, where processSitemap goes on when entry i is the next to
\* handle: tx.Commit() after the last entry, insertURLBatch's tx.Prepare at the
\* first entry of a batch, stmt.Exec otherwise
SmPcAt(g, i) ==
    IF i > Len(SitemapDoc(g)) THEN "commit"
    ELSE IF (i - 1) % batchSize = 0 THEN "batch"
    ELSE "exec"

\* line 180: tx.Prepare
SmPrepare(g) ==
    /\ gpc[g] = "prepare"
    /\ gpc' = [gpc EXCEPT ![g] = SmPcAt(g, 1)]
    /\ UNCHANGED <<sitemaps, prog, mainPc, wg, spawned, gfw, gresp, gtx, gerr, semaphore,
                   completed, varsArticleRun, varsDb, FrameRun>>

\* line 232: insertURLBatch's tx.Prepare.  On an aborted transaction it fails:
\* insertURLBatch returns, lines 206 and 215 log the error, and processSitemap
\* goes on after the batch
SmBatchPrepare(g) ==
    /\ gpc[g] = "batch"
    /\ IF gtx[g].aborted
       THEN LET i == BatchEnd(g, gtx[g].next) + 1
            IN  /\ gtx' = [gtx EXCEPT ![g].next = i]
                /\ gpc' = [gpc EXCEPT ![g] = SmPcAt(g, i)]
       ELSE /\ gpc' = [gpc EXCEPT ![g] = "exec"]
            /\ UNCHANGED gtx
    /\ UNCHANGED <<sitemaps, prog, mainPc, wg, spawned, gfw, gresp, gerr, semaphore,
                   completed, varsArticleRun, varsDb, FrameRun>>

\* go_sitemaps as the next statement of goroutine g's transaction sees it
\* (READ COMMITTED): the committed rows, and the transaction's own writes in
\* place of the rows they replace
SmView(g) ==
    {r \in sitemaps : \A o \in gtx[g].rows :
         ~(o.website_id = r.website_id /\ o.article_url = r.article_url)}
    \cup gtx[g].rows

\* another transaction has written the row of loc and has not ended: an
\* upsert of that row waits for it
SmRowLocked(g, loc) ==
    \E h \in DOMAIN gtx :
        /\ h # g
        /\ gtx[h].open
        /\ \E r \in gtx[h].rows : r.website_id = WebsiteID /\ r.article_url = loc

\* line 263: stmt.Exec for the next entry
SmExec(g) ==
    /\ gpc[g] = "exec"
    /\ LET i == gtx[g].next
           e == SitemapDoc(g)[i]
           after == UpsertSitemapRow(SmView(g), WebsiteID, e.Loc, ParseDate(e.LastMod),
                                     gresp[g], RunClock)
       IN  /\ ~SmRowLocked(g, e.Loc)
           /\ gtx' = [gtx EXCEPT ![g].next = i + 1,
                                 ![g].rows =
                                     {r \in after :
                                         \/ r.article_url = e.Loc
                                         \/ \E o \in gtx[g].rows :
                                                o.article_url = r.article_url}]
           /\ gpc' = [gpc EXCEPT ![g] = SmPcAt(g, i + 1)]
    /\ UNCHANGED <<sitemaps, prog, mainPc, wg, spawned, gfw, gresp, gerr, semaphore,
                   completed, varsArticleRun, varsDb, FrameRun>>

\* lines 263-266: the Exec of the document's first entry fails.  The
\* transaction is aborted, insertURLBatch returns the error, which is logged,
\* and processSitemap goes on after the batch
SmExecFails(g) ==
    /\ gpc[g] = "exec"
    /\ g \in FaultySitemaps
    /\ gtx[g].next = 1
    /\ LET i == BatchEnd(g, gtx[g].next) + 1
       IN  /\ gtx' = [gtx EXCEPT ![g].next = i, ![g].aborted = TRUE]
           /\ gpc' = [gpc EXCEPT ![g] = SmPcAt(g, i)]
    /\ UNCHANGED <<sitemaps, prog, mainPc, wg, spawned, gfw, gresp, gerr, semaphore,
                   completed, varsArticleRun, varsDb, FrameRun>>

\* lines 222-227: tx.Commit().  On an aborted transaction it fails, and the
\* transaction is rolled back
SmCommit(g) ==
    /\ gpc[g] = "commit"
    /\ IF gtx[g].aborted
       THEN /\ gerr' = [gerr EXCEPT ![g] = "failed to commit transaction"]
            /\ UNCHANGED sitemaps
       ELSE /\ gerr' = [gerr EXCEPT ![g] = NoErr]
            /\ sitemaps' = SmView(g)
    /\ gtx' = [gtx EXCEPT ![g] = NoTx]
    /\ gresp' = [gresp EXCEPT ![g] = NoResp]
    /\ gpc' = [gpc EXCEPT ![g] = "release"]
    /\ UNCHANGED <<prog, mainPc, wg, spawned, gfw, semaphore, completed,
                   varsArticleRun, varsDb, FrameRun>>

\* line 124: <-semaphore
SmRelease(g) ==
    /\ gpc[g] = "release"
    /\ semaphore' = semaphore - 1
    /\ gpc' = [gpc EXCEPT ![g] = "count"]
    /\ UNCHANGED <<sitemaps, prog, mainPc, wg, spawned, gfw, gresp, gerr, gtx, completed,
                   varsArticleRun, varsDb, FrameRun>>

\* A plausible slip: the counter is advanced only for a sitemap that was
\* processed without error.
SmCountOnSuccess(g) ==
    /\ gpc[g] = "count"
    /\ completed' = (IF gerr[g] = NoErr THEN completed + 1 ELSE completed)
    /\ gpc' = [gpc EXCEPT ![g] = "wgdone"]
    /\ UNCHANGED <<sitemaps, prog, mainPc, wg, spawned, gfw, gresp, gerr, gtx, semaphore,
                   varsArticleRun, varsDb, FrameRun>>

\* line 125: atomic.AddInt32(&completed, 1)
SmCount(g) ==
    /\ gpc[g] = "count"
    /\ completed' = completed + 1
    /\ gpc' = [gpc EXCEPT ![g] = "wgdone"]
    /\ UNCHANGED <<sitemaps, prog, mainPc, wg, spawned, gfw, gresp, gerr, gtx, semaphore,
                   varsArticleRun, varsDb, FrameRun>>

\* A plausible slip: wg.Done() is not deferred, and is reached only when
\* processSitemap returned nil.
SmWgDoneUnlessFailed(g) ==
    /\ gpc[g] = "wgdone"
    /\ gerr[g] = NoErr
    /\ wg' = wg - 1
    /\ gpc' = [gpc EXCEPT ![g] = "exited"]
    /\ UNCHANGED <<sitemaps, prog, mainPc, spawned, gfw, gresp, gerr, gtx, semaphore, completed,
                   varsArticleRun, varsDb, FrameRun>>

\* line 120: the deferred wg.Done()
SmWgDone(g) ==
    /\ gpc[g] = "wgdone"
    /\ wg' = wg - 1
    /\ gpc' = [gpc EXCEPT ![g] = "exited"]
    /\ UNCHANGED <<sitemaps, prog, mainPc, spawned, gfw, gresp, gerr, gtx, semaphore, completed,
                   varsArticleRun, varsDb, FrameRun>>

\* lines 136-137: wg.Wait() returns, "All sitemaps processed"
SmAllProcessed ==
    /\ prog = "sitemap_scraper"
    /\ mainPc = "wait"
    /\ wg = 0
    /\ mainPc' = "done"
    /\ UNCHANGED <<sitemaps, prog, wg, varsSitemapRun, varsArticleRun, varsDb, FrameRun>>

SitemapFetchesInFlight ==
    Cardinality({g \in DOMAIN gfw : gpc[g] = "fetch" /\ FwInFlight(gfw[g])})

NextSitemapRun ==
    \/ SmSpawn
    \/ SmSpawned
    \/ \E g \in DOMAIN gpc : SmAcquire(g)
    \/ \E g \in DOMAIN gpc : SmGetStart(g)
    \/ \E g \in DOMAIN gpc : SmGetResponse(g)
    \/ \E g \in DOMAIN gpc : SmGetError(g)
    \/ \E g \in DOMAIN gpc : SmSleep(g)
    \/ \E g \in DOMAIN gpc : SmGiveUp(g)
    \/ \E g \in DOMAIN gpc : SmReadBody(g)
    \/ \E g \in DOMAIN gpc : SmParseFails(g)
    \/ \E g \in DOMAIN gpc : SmBegin(g)
    \/ \E g \in DOMAIN gpc : SmPrepare(g)
    \/ \E g \in DOMAIN gpc : SmBatchPrepare(g)
    \/ \E g \in DOMAIN gpc : SmExec(g)
    \/ \E g \in DOMAIN gpc : SmExecFails(g)
    \/ \E g \in DOMAIN gpc : SmCommit(g)
    \/ \E g \in DOMAIN gpc : SmRelease(g)
    \/ \E g \in DOMAIN gpc : SmCount(g)
    \/ \E g \in DOMAIN gpc : SmWgDone(g)
    \/ SmAllProcessed

-----------------------------------------------------------------------------
(* SpecConc: two workers call SaveArticle for the same url at the same time. *)
(* Each statement of a transaction sees what is committed when it runs       *)
(* (PostgreSQL's READ COMMITTED, the level db.Begin gives) and the           *)
(* transaction's own writes.  INSERT ... ON CONFLICT (url) DO UPDATE takes   *)
(* the lock of the article's row and waits while another transaction that    *)
(* has written that row is open.                                             *)

Savers == {1, 2}

ConcSlugLists == {<<SlugNews>>, <<SlugSport>>, <<SlugNews, SlugSport>>}

\* what the two workers scraped from the url
ConcInputs ==
    {Article(0, <<"T">>, [i \in 1..Len(sl) |-> <<"N">>], <<"A">>, 1, 0, c, UrlA, sl, NoHash) :
        c \in Contents, sl \in ConcSlugLists}

\* the tables before the two calls: empty, or as an earlier SaveArticle left them
ConcStarts ==
    {[articles |-> {}, links |-> {}, seq |-> 0]}
    \cup {[articles |-> r.articles, links |-> r.links, seq |-> Nextval(0)] :
            r \in {SaveArticle(SiteCategories, {}, {}, 0, a, "none") : a \in ConcInputs}}

\* no row of go_articles
NoRow ==
    [id |-> Null, website_id |-> Null, title |-> NoString, content |-> NoString,
     content_hash |-> NoHash, author |-> NoString, publish_date |-> 0, last_updated |-> 0,
     url |-> NoString]

\* the zero value of Article
NoArticle == Article(0, NoString, <<>>, NoString, 0, 0, NoString, NoString, <<>>, NoHash)

\* what a transaction has done: whether it wrote the article's row, the row,
\* whether its upsert waited and the id it drew before it waited, whether a
\* failed statement has aborted it, the links it deleted and inserted, the
\* place of the next slug
NoWrites ==
    [wrote |-> FALSE, row |-> NoRow, waited |-> FALSE, drawn |-> Null, aborted |-> FALSE,
     deleted |-> {}, inserted |-> {}, i |-> 1]

InitConc ==
    /\ categories = SiteCategories
    /\ categorySeq = Cardinality(SiteCategories)
    /\ \E start \in ConcStarts :
          /\ articles = start.articles
          /\ links = start.links
          /\ articleSeq = start.seq
          /\ svStart = <<start.articles, start.links>>
    /\ svArg \in [Savers -> ConcInputs]
    /\ svPc = [t \in Savers |-> "begin"]
    /\ svSeen = [t \in Savers |-> NoRow]
    /\ svTx = [t \in Savers |-> NoWrites]
    /\ svErr = [t \in Savers |-> "running"]
    /\ rowLock = {}
    /\ IdleChange /\ IdleScrape /\ IdleFetch /\ IdleSave /\ IdleCat /\ IdleRun /\ IdlePs
    /\ IdleUnit /\ IdleExtract

\* A plausible slip: the upsert does not wait for the transaction that holds
\* the row.
RowLockFreeAlways(t) == TRUE

\* no other open transaction has written the row of the article's url
\* (rowLock: the workers whose transaction holds the lock of its url's row)
RowLockFree(t) == \A u \in rowLock : u = t \/ svArg[u].URL # svArg[t].URL

\* the function returns: the deferred tx.Rollback (line 162) drops what the
\* transaction wrote and gives its lock back
SvReturn(t, err) ==
    /\ svPc' = [svPc EXCEPT ![t] = "done"]
    /\ svErr' = [svErr EXCEPT ![t] = err]
    /\ svTx' = [svTx EXCEPT ![t] = [NoWrites EXCEPT !.waited = svTx[t].waited]]
    /\ rowLock' = rowLock \ {t}

\* lines 158-165: db.Begin and the hash
SvBegin(t) ==
    /\ svPc[t] = "begin"
    /\ svPc' = [svPc EXCEPT ![t] = "select"]
    /\ svArg' = [svArg EXCEPT ![t].ContentHash = CalculateContentHash(svArg[t].Content)]
    /\ UNCHANGED <<articles, links, articleSeq, svSeen, svTx, svErr, rowLock, svStart, FrameConc>>

\* lines 158-161: db.Begin fails
SvBeginFails(t) ==
    /\ svPc[t] = "begin"
    /\ SvReturn(t, "failed to begin transaction")
    /\ UNCHANGED <<articles, links, articleSeq, svArg, svSeen, svStart, FrameConc>>

\* lines 168-174: SELECT ... FROM go_articles WHERE url = $1
SvSelect(t) ==
    /\ svPc[t] = "select"
    /\ LET found == {r \in articles : r.url = svArg[t].URL}
       IN  IF found = {}
           THEN /\ svPc' = [svPc EXCEPT ![t] = "upsert"]
                /\ UNCHANGED svSeen
           ELSE /\ svPc' = [svPc EXCEPT ![t] = "categories"]
                /\ svSeen' = [svSeen EXCEPT ![t] = CHOOSE r \in found : TRUE]
    /\ UNCHANGED <<articles, links, articleSeq, svArg, svTx, svErr, rowLock, svStart, FrameConc>>

\* lines 168-176: the SELECT fails, which aborts the transaction; err is not
\* nil and the upsert is next
SvSelectFails(t) ==
    /\ svPc[t] = "select"
    /\ svTx' = [svTx EXCEPT ![t].aborted = TRUE]
    /\ svPc' = [svPc EXCEPT ![t] = "upsert"]
    /\ UNCHANGED <<articles, links, articleSeq, svArg, svSeen, svErr, rowLock, svStart, FrameConc>>

\* lines 176-198: the stored slugs, hasChanged, and the return when nothing changed
SvSelectCategories(t) ==
    /\ svPc[t] = "categories"
    /\ IF hasChanged(ExistingArticle(categories, links, svSeen[t], FALSE), svArg[t])
       THEN /\ svPc' = [svPc EXCEPT ![t] = "upsert"]
            /\ UNCHANGED <<svErr, svTx, rowLock>>
       ELSE SvReturn(t, NoErr)
    /\ UNCHANGED <<articles, links, articleSeq, svArg, svSeen, svStart, FrameConc>>

\* lines 178-198: the query of the stored slugs fails, which aborts the
\* transaction; the stored record is compared without categories
SvCategoriesFail(t) ==
    /\ svPc[t] = "categories"
    /\ IF hasChanged(ExistingArticle(categories, links, svSeen[t], TRUE), svArg[t])
       THEN /\ svPc' = [svPc EXCEPT ![t] = "upsert"]
            /\ svTx' = [svTx EXCEPT ![t].aborted = TRUE]
            /\ UNCHANGED <<svErr, rowLock>>
       ELSE SvReturn(t, NoErr)
    /\ UNCHANGED <<articles, links, articleSeq, svArg, svSeen, svStart, FrameConc>>

\* the upsert has formed its row, with an id drawn from the sequence, finds
\* the row of the url held by the other transaction and waits
SvUpsertWaits(t) ==
    /\ svPc[t] = "upsert"
    /\ ~svTx[t].aborted
    /\ ~RowLockFree(t)
    /\ ~svTx[t].waited
    /\ articleSeq' = Nextval(articleSeq)
    /\ svTx' = [svTx EXCEPT ![t].waited = TRUE, ![t].drawn = Nextval(articleSeq)]
    /\ UNCHANGED <<articles, links, svPc, svArg, svSeen, svErr, rowLock, svStart, FrameConc>>

\* lines 203-225: INSERT ... ON CONFLICT (url) DO UPDATE ... RETURNING id, on
\* the row as it is committed when the statement gets the lock; the id of a
\* new row is the value the statement drew, before it waited if it did
SvUpsert(t) ==
    /\ svPc[t] = "upsert"
    /\ ~svTx[t].aborted
    /\ RowLockFree(t)
    /\ LET drawn == IF svTx[t].waited THEN svTx[t].drawn ELSE Nextval(articleSeq)
           up == UpsertArticle(articles, svArg[t], drawn)
       IN  /\ articleSeq' = IF svTx[t].waited THEN articleSeq ELSE drawn
           /\ svTx' = [svTx EXCEPT ![t].wrote = TRUE,
                                    ![t].row = CHOOSE r \in up.articles :
                                                   r.id = up.id /\ r.url = svArg[t].URL]
    /\ rowLock' = rowLock \cup {t}
    /\ svPc' = [svPc EXCEPT ![t] = "delete"]
    /\ UNCHANGED <<articles, links, svArg, svSeen, svErr, svStart, FrameConc>>

\* lines 233-236: DELETE FROM go_article_categories WHERE article_id = $1
SvDelete(t) ==
    /\ svPc[t] = "delete"
    /\ svTx' = [svTx EXCEPT ![t].deleted = {l \in links : l.article_id = svTx[t].row.id}]
    /\ svPc' = [svPc EXCEPT ![t] = "link"]
    /\ UNCHANGED <<articles, links, articleSeq, svArg, svSeen, svErr, rowLock, svStart, FrameConc>>

\* lines 243-265: one turn of the loop over the slugs, the lookup and the
\* INSERT ... ON CONFLICT DO NOTHING
SvLink(t) ==
    /\ svPc[t] = "link"
    /\ ~svTx[t].aborted
    /\ svTx[t].i <= Len(svArg[t].CategorySlugs)
    /\ LET ids == CategoryIdsFor(categories, WebsiteID, svArg[t].CategorySlugs[svTx[t].i])
           new == {[article_id |-> svTx[t].row.id, category_id |-> c] : c \in ids}
       IN  svTx' = [svTx EXCEPT ![t].inserted = @ \cup new, ![t].i = @ + 1]
    /\ UNCHANGED <<articles, links, articleSeq, svPc, svArg, svSeen, svErr, rowLock, svStart, FrameConc>>

\* lines 245-264: the lookup or the insert of one turn fails, which aborts
\* the transaction; the error is logged and the loop goes on
SvLinkFails(t) ==
    /\ svPc[t] = "link"
    /\ svTx[t].i <= Len(svArg[t].CategorySlugs)
    /\ svTx' = [svTx EXCEPT ![t].aborted = TRUE, ![t].i = @ + 1]
    /\ UNCHANGED <<articles, links, articleSeq, svPc, svArg, svSeen, svErr, rowLock, svStart, FrameConc>>

SvLinked(t) ==
    /\ svPc[t] = "link"
    /\ svTx[t].i > Len(svArg[t].CategorySlugs)
    /\ svPc' = [svPc EXCEPT ![t] = "commit"]
    /\ UNCHANGED <<articles, links, articleSeq, svArg, svSeen, svTx, svErr, rowLock, svStart, FrameConc>>

\* line 267: tx.Commit makes the writes of the transaction visible
SvCommit(t) ==
    /\ svPc[t] = "commit"
    /\ ~svTx[t].aborted
    /\ articles' = {r \in articles : r.url # svArg[t].URL} \cup {svTx[t].row}
    /\ links' = (links \ svTx[t].deleted) \cup svTx[t].inserted
    /\ svPc' = [svPc EXCEPT ![t] = "done"]
    /\ svErr' = [svErr EXCEPT ![t] = NoErr]
    /\ rowLock' = rowLock \ {t}
    /\ UNCHANGED <<articleSeq, svArg, svSeen, svTx, svStart, FrameConc>>

\* lines 227-229, 238-240, 267: the upsert, the delete or the commit fails,
\* as every statement of an aborted transaction does; an upsert that the
\* server took may have drawn its id
SvFails(t) ==
    /\ svPc[t] \in {"upsert", "delete", "commit"}
    /\ svPc[t] = "upsert" => (svTx[t].aborted \/ RowLockFree(t))
    /\ articleSeq' \in IF svPc[t] = "upsert" /\ ~svTx[t].aborted /\ ~svTx[t].waited
                        THEN SeqAfter(articleSeq, TRUE)
                        ELSE {articleSeq}
    /\ SvReturn(t, CASE svPc[t] = "upsert" -> "failed to upsert article"
                     [] svPc[t] = "delete" -> "failed to clear existing categories"
                     [] OTHER -> "commit")
    /\ UNCHANGED <<articles, links, svArg, svSeen, svStart, FrameConc>>

\* the next statement of the call of worker t is answered
SvStatement(t) ==
    \/ SvBegin(t)
    \/ SvSelect(t)
    \/ SvSelectCategories(t)
    \/ SvUpsert(t)
    \/ SvDelete(t)
    \/ SvLink(t)
    \/ SvLinked(t)
    \/ SvCommit(t)

\* the next statement of the call of worker t fails
SvFault(t) ==
    \/ SvBeginFails(t)
    \/ SvSelectFails(t)
    \/ SvCategoriesFail(t)
    \/ SvLinkFails(t)
    \/ SvFails(t)

NextConc == \E t \in Savers : SvStatement(t) \/ SvFault(t) \/ SvUpsertWaits(t)

SpecConc == InitConc /\ [][NextConc]_vars

\* the worker's call wrote and committed
SvWrote(t) == svPc[t] = "done" /\ svErr[t] = NoErr /\ svTx[t].wrote

\* the stored row and its links are those of the call of worker t
StoredBy(t) ==
    \A r \in {q \in articles : q.url = svArg[t].URL} :
        /\ r.title = svArg[t].Title
        /\ r.author = svArg[t].Author
        /\ r.content = svArg[t].Content
        /\ r.content_hash = svArg[t].ContentHash
        /\ {l \in links : l.article_id = r.id}
              = {[article_id |-> r.id, category_id |-> c] :
                    c \in Range(ResolvedIds(categories, svArg[t].CategorySlugs))}

\* C20: whatever the interleaving of two workers in SaveArticle for one url,
\* when both have returned there is one article row for the url, and its
\* fields and its links both come from the same one of the calls that wrote;
\* when neither wrote the tables are as before.
C20_WritesSerialize ==
    (\A t \in DOMAIN svPc : svPc[t] = "done") =>
        IF \E t \in DOMAIN svPc : SvWrote(t)
        THEN /\ Cardinality({r \in articles : r.url = UrlA}) = 1
             /\ \E t \in DOMAIN svPc : SvWrote(t) /\ StoredBy(t)
        ELSE <<articles, links>> = svStart

\* both calls wrote, with different contents and different categories, and
\* the upsert of one waited for the transaction of the other
C20_Witness ==
    /\ svPc # <<>>
    /\ \A t \in DOMAIN svPc : SvWrote(t)
    /\ \E t \in DOMAIN svPc : svTx[t].waited
    /\ svArg[1].Content # svArg[2].Content
    /\ Range(svArg[1].CategorySlugs) # Range(svArg[2].CategorySlugs)

-----------------------------------------------------------------------------
(* The article scraper (cmd/article_scraper/main.go lines 42-124) *)

\* config.Websites[1].MaxWorkers
MaxWorkers == 3

Workers == 1..MaxWorkers
NoUrl == <<>>

\* the page the site serves for an article URL
PageOf(url) ==
    [title |-> <<"T">>, author |-> <<"A">>,
     anchors |-> <<[text |-> <<"N">>, href |-> Href(SlugNews)]>>,
     published |-> "2024-01-01T00:00:00Z", updated |-> NoAttr,
     paragraphs |-> <<<<"a">>>>]

\* SELECT article_url FROM go_sitemaps WHERE website_id = $1 ORDER BY created_at
\* (lines 77-82): the lists the query may return, the site's rows by created_at,
\* the rows of one created_at in any order
StoredUrls(rows) ==
    LET mine == {r \in rows : r.website_id = WebsiteID}
        n == Cardinality(mine)
        orders == {f \in [1..n -> mine] :
                      /\ \A i, j \in 1..n : i # j => f[i] # f[j]
                      /\ \A i \in 1..(n - 1) : f[i].created_at <= f[i + 1].created_at}
    IN  {[i \in 1..n |-> f[i].article_url] : f \in orders}

\* go_articles and go_article_categories as an earlier run left them, which
\* saved the articles 2..k: the second with another content than the site
\* serves now, the later ones as it serves them; the first article is new
RECURSIVE StoredBefore(_)
StoredBefore(k) ==
    IF k < 2 THEN [articles |-> {}, links |-> {}, seq |-> 0]
    ELSE LET before == StoredBefore(k - 1)
             scraped == ScrapeArticle(ArticleUrl(k), PageOf(ArticleUrl(k)))
             a == IF k = 2 THEN [scraped EXCEPT !.Content = <<"b">>] ELSE scraped
             r == SaveArticle(SiteCategories, before.articles, before.links, before.seq,
                              a, "none")
         IN  [articles |-> r.articles, links |-> r.links, seq |-> Nextval(before.seq)]

\* when the row of article k was stored: the first two rows in one
\* transaction, every later row in a later one
StoredAt(k) == IF k = 1 THEN 1 ELSE k - 1

InitArticleRun ==
    /\ prog = "article_scraper"
    /\ mainPc = "start"
    /\ wg = 0
    /\ sitemaps = {[website_id |-> WebsiteID, article_url |-> ArticleUrl(k), last_mod |-> 1,
                    created_at |-> StoredAt(k), is_valid |-> TRUE, status_code |-> 200,
                    last_checked |-> StoredAt(k)]
                       : k \in 1..NumArticles}
    /\ categories = SiteCategories
    /\ categorySeq = Cardinality(SiteCategories)
    /\ \E stored \in {StoredBefore(NumArticles)} :
          /\ articles = stored.articles
          /\ links = stored.links
          /\ articleSeq = stored.seq
    /\ svPc = [w \in Workers |-> "idle"]
    /\ svArg = [w \in Workers |-> NoArticle]
    /\ svSeen = [w \in Workers |-> NoRow]
    /\ svTx = [w \in Workers |-> NoWrites]
    /\ svErr = [w \in Workers |-> NoErr]
    /\ rowLock = {}
    /\ svStart = <<>>
    /\ urls = <<>>
    /\ closed = FALSE
    /\ toSend = <<>>
    /\ wpc = [w \in Workers |-> "unborn"]
    /\ wurl = [w \in Workers |-> NoUrl]
    /\ sent = <<>>
    /\ recvd = <<>>
    /\ spawned = 0 /\ gpc = <<>> /\ gfw = <<>> /\ gresp = <<>> /\ gtx = <<>> /\ gerr = <<>>
    /\ semaphore = 0 /\ completed = 0
    /\ IdleChange /\ IdleScrape /\ IdleFetch /\ IdleSave /\ IdleCat /\ IdlePs /\ IdleUnit /\ IdleExtract

\* what the actions of main and of the workers outside SaveArticle leave alone
FrameRunSave ==
    <<varsChange, varsScrape, varsFetch, varsSave, varsCat, varsPs, varsUnit, varsExtract>>

\* lines 55-74: wg.Add(1); go func()
ArStartWorker ==
    /\ prog = "article_scraper"
    /\ mainPc = "start"
    /\ \E w \in Workers :
          /\ wpc[w] = "unborn"
          /\ \A v \in Workers : v < w => wpc[v] # "unborn"
          /\ wpc' = [wpc EXCEPT ![w] = "recv"]
    /\ wg' = wg + 1
    /\ UNCHANGED <<sitemaps, prog, mainPc, varsSitemapRun, urls, closed, toSend, wurl,
                   varsDb, FrameRun, sent, recvd>>

\* lines 77-99: the URLs are read from go_sitemaps
ArQuery ==
    /\ prog = "article_scraper"
    /\ mainPc = "start"
    /\ \A w \in Workers : wpc[w] # "unborn"
    /\ toSend' \in StoredUrls(sitemaps)
    /\ mainPc' = "send"
    /\ UNCHANGED <<sitemaps, prog, wg, varsSitemapRun, urls, closed, wpc, wurl,
                   varsDb, FrameRun, sent, recvd>>

\* lines 83-85, 95-97: a query fails, log.Fatal ends the process
ArQueryFails ==
    /\ prog = "article_scraper"
    /\ mainPc = "start"
    /\ \A w \in Workers : wpc[w] # "unborn"
    /\ mainPc' = "fatal"
    /\ UNCHANGED <<sitemaps, prog, wg, varsSitemapRun, varsArticleRun, varsDb, FrameRun>>

\* line 112: urls <- articleURL, when the channel has room
ArSend ==
    /\ prog = "article_scraper"
    /\ mainPc = "send"
    /\ toSend # <<>>
    /\ Len(urls) < QueueCap
    /\ urls' = Append(urls, Head(toSend))
    /\ toSend' = Tail(toSend)
    /\ sent' = Append(sent, Head(toSend))
    /\ UNCHANGED <<sitemaps, prog, mainPc, wg, varsSitemapRun, closed, wpc, wurl,
                   varsDb, FrameRun, recvd>>

\* lines 106-109: rows.Scan fails; the row is logged and skipped
ArScanFails ==
    /\ prog = "article_scraper"
    /\ mainPc = "send"
    /\ toSend # <<>>
    /\ toSend' = Tail(toSend)
    /\ UNCHANGED <<sitemaps, prog, mainPc, wg, varsSitemapRun, urls, closed, wpc, wurl,
                   varsDb, FrameRun, sent, recvd>>

\* lines 121-122: close(urls); wg.Wait() is reached
ArClose ==
    /\ prog = "article_scraper"
    /\ mainPc = "send"
    /\ toSend = <<>>
    /\ closed' = TRUE
    /\ mainPc' = "wait"
    /\ UNCHANGED <<sitemaps, prog, wg, varsSitemapRun, urls, toSend, wpc, wurl,
                   varsDb, FrameRun, sent, recvd>>

\* line 59-62: a url is received and ScrapeArticle sends its request
ArRecv(w) ==
    /\ mainPc # "fatal"
    /\ wpc[w] = "recv"
    /\ urls # <<>>
    /\ wurl' = [wurl EXCEPT ![w] = Head(urls)]
    /\ urls' = Tail(urls)
    /\ recvd' = Append(recvd, Head(urls))
    /\ wpc' = [wpc EXCEPT ![w] = "fetch"]
    /\ UNCHANGED <<sitemaps, prog, mainPc, wg, varsSitemapRun, closed, toSend,
                   varsDb, FrameRun, sent>>

\* line 59 and 58: the channel is closed and empty, the worker returns
ArExit(w) ==
    /\ mainPc # "fatal"
    /\ wpc[w] = "recv"
    /\ urls = <<>>
    /\ closed
    /\ wpc' = [wpc EXCEPT ![w] = "exited"]
    /\ wg' = wg - 1
    /\ UNCHANGED <<sitemaps, prog, mainPc, varsSitemapRun, urls, closed, toSend, wurl,
                   varsDb, FrameRun, sent, recvd>>

\* lines 60-64: the request or the HTML parse fails; the next url is taken
ArScrapeFails(w) ==
    /\ mainPc # "fatal"
    /\ wpc[w] = "fetch"
    /\ wpc' = [wpc EXCEPT ![w] = "recv"]
    /\ wurl' = [wurl EXCEPT ![w] = NoUrl]
    /\ UNCHANGED <<sitemaps, prog, mainPc, wg, varsSitemapRun, urls, closed, toSend,
                   varsDb, FrameRun, sent, recvd>>

\* line 60: ScrapeArticle returns the record
ArScraped(w) ==
    /\ mainPc # "fatal"
    /\ wpc[w] = "fetch"
    /\ wpc' = [wpc EXCEPT ![w] = "save"]
    /\ UNCHANGED <<sitemaps, prog, mainPc, wg, varsSitemapRun, urls, closed, toSend, wurl,
                   varsDb, FrameRun, sent, recvd>>

\* line 66: SaveArticle is called with the record
ArSaveCall(w) ==
    /\ mainPc # "fatal"
    /\ wpc[w] = "save"
    /\ \E article \in {ScrapeArticle(wurl[w], PageOf(wurl[w]))} :
          svArg' = [svArg EXCEPT ![w] = article]
    /\ svPc' = [svPc EXCEPT ![w] = "begin"]
    /\ svSeen' = [svSeen EXCEPT ![w] = NoRow]
    /\ svTx' = [svTx EXCEPT ![w] = NoWrites]
    /\ svErr' = [svErr EXCEPT ![w] = "running"]
    /\ wpc' = [wpc EXCEPT ![w] = "saving"]
    /\ UNCHANGED <<sitemaps, prog, mainPc, wg, varsSitemapRun, urls, closed, toSend, wurl,
                   varsDb, rowLock, svStart, FrameRunSave, sent, recvd>>

\* the urls whose SaveArticle can meet a failing statement
FaultyArticles == {ArticleUrl(2)}

\* a statement of the call of worker w fails
ArSaveFault(w) ==
    /\ wurl[w] \in FaultyArticles
    /\ SvFault(w)

\* lines 66-68: SaveArticle has returned; its error is logged and the call's
\* locals are gone
ArSaveReturns(w) ==
    /\ mainPc # "fatal"
    /\ wpc[w] = "saving"
    /\ svPc[w] = "done"
    /\ svPc' = [svPc EXCEPT ![w] = "idle"]
    /\ svArg' = [svArg EXCEPT ![w] = NoArticle]
    /\ svSeen' = [svSeen EXCEPT ![w] = NoRow]
    /\ svTx' = [svTx EXCEPT ![w] = NoWrites]
    /\ svErr' = [svErr EXCEPT ![w] = NoErr]
    /\ wpc' = [wpc EXCEPT ![w] = "sleep"]
    /\ UNCHANGED <<sitemaps, prog, mainPc, wg, varsSitemapRun, urls, closed, toSend, wurl,
                   varsDb, rowLock, svStart, FrameRunSave, sent, recvd>>

\* line 71: time.Sleep(RetryDelay)
ArSleep(w) ==
    /\ mainPc # "fatal"
    /\ wpc[w] = "sleep"
    /\ wpc' = [wpc EXCEPT ![w] = "recv"]
    /\ wurl' = [wurl EXCEPT ![w] = NoUrl]
    /\ UNCHANGED <<sitemaps, prog, mainPc, wg, varsSitemapRun, urls, closed, toSend,
                   varsDb, FrameRun, sent, recvd>>

\* lines 122-123: wg.Wait() returns, "Article scraping completed"
ArCompleted ==
    /\ prog = "article_scraper"
    /\ mainPc = "wait"
    /\ wg = 0
    /\ mainPc' = "done"
    /\ UNCHANGED <<sitemaps, prog, wg, varsSitemapRun, varsArticleRun, varsDb, FrameRun>>

ArticleFetchesInFlight ==
    Cardinality({w \in DOMAIN wpc : wpc[w] = "fetch"})

NextArticleRun ==
    \/ ArStartWorker
    \/ ArQuery
    \/ ArQueryFails
    \/ ArSend
    \/ ArScanFails
    \/ ArClose
    \/ \E w \in DOMAIN wpc : ArRecv(w)
    \/ \E w \in DOMAIN wpc : ArExit(w)
    \/ \E w \in DOMAIN wpc : ArScrapeFails(w)
    \/ \E w \in DOMAIN wpc : ArScraped(w)
    \/ \E w \in DOMAIN wpc : ArSaveCall(w)
    \/ \E w \in DOMAIN wpc : SvStatement(w)
    \/ \E w \in DOMAIN wpc : ArSaveFault(w)
    \/ \E w \in DOMAIN wpc : ArSaveReturns(w)
    \/ \E w \in DOMAIN wpc : ArSleep(w)
    \/ ArCompleted

-----------------------------------------------------------------------------
InitRun == InitSitemapRun \/ InitArticleRun

NextRun == NextSitemapRun \/ NextArticleRun

SpecRun == InitRun /\ [][NextRun]_vars

-----------------------------------------------------------------------------
(* SpecSitemapRunLive: a run of the sitemap scraper under the scheduling the *)
(* Go runtime gives: the main goroutine and every started goroutine take     *)
(* their next step when they can.  A request ends, by a response or by an    *)
(* error, because the client has a timeout.                                  *)

\* part_000 line 48 (seconds)
timeout == 90

\* http.Client.Timeout: zero means no timeout
HasTimeout(t) == t > 0

SmMainStep == SmSpawn \/ SmSpawned \/ SmAllProcessed

\* the steps of goroutine g that need nothing from outside the process
SmLocalStep(g) ==
    \/ SmAcquire(g)
    \/ SmGetStart(g)
    \/ SmSleep(g)
    \/ SmGiveUp(g)
    \/ SmRelease(g)
    \/ SmCount(g)
    \/ SmWgDone(g)

\* the request of goroutine g ends, and so does the reading of the body:
\* the client's timeout covers both
SmFetchEnds(g) == SmGetResponse(g) \/ SmGetError(g) \/ SmReadBody(g) \/ SmParseFails(g)

\* the database answers the next statement of goroutine g's transaction; an
\* upsert that waits for a row is answered once the row's writer has ended
SmDbStep(g) ==
    \/ SmBegin(g)
    \/ SmPrepare(g)
    \/ SmBatchPrepare(g)
    \/ SmExec(g)
    \/ SmExecFails(g)
    \/ SmCommit(g)

FairSitemapRun ==
    /\ WF_vars(SmMainStep)
    /\ \A g \in 1..NumLiveSitemaps : WF_vars(SmLocalStep(g))
    /\ \A g \in 1..NumLiveSitemaps : WF_vars(HasTimeout(timeout) /\ SmFetchEnds(g))
    /\ \A g \in 1..NumLiveSitemaps : WF_vars(SmDbStep(g))

SpecSitemapRunLive ==
    InitSitemapRunOf(NumLiveSitemaps) /\ [][NextSitemapRun]_vars /\ FairSitemapRun

\* the rows processSitemap commits for sitemap g are stored
SitemapCommitted(g) ==
    \A i \in 1..Len(SitemapDoc(g)) :
        \E r \in sitemaps : r.website_id = WebsiteID /\ r.article_url = SitemapDoc(g)[i].Loc

\* C15: whichever sitemaps fail, the run reaches "All sitemaps processed",
\* every goroutine has then finished, and every sitemap whose processing
\* did not fail is committed; the process is never ended by a failure.
C15_FailuresAreIsolated ==
    /\ [](mainPc # "fatal")
    /\ [](mainPc = "done" =>
            \A g \in DOMAIN gpc :
                /\ gpc[g] = "exited"
                /\ gerr[g] = NoErr => SitemapCommitted(g))
    /\ <>(mainPc = "done")

\* the run ends with the first sitemap lost to retry exhaustion and the
\* second committed
C15_Witness ==
    /\ prog = "sitemap_scraper"
    /\ mainPc = "done"
    /\ gerr[1] = "failed to fetch sitemap"
    /\ gerr[2] = NoErr
    /\ SitemapCommitted(2)

-----------------------------------------------------------------------------
(* SpecArticleRunLive: a run of the article scraper under the scheduling the *)
(* Go runtime gives.  A request of ScrapeArticle ends when the server        *)
(* answers or the connection fails; only a client timeout makes it end       *)
(* whatever the server does.                                                 *)

\* part_003 line 41: &http.Client{} leaves Timeout at its zero value
ArticleClientTimeout == 0

ArMainStep ==
    ArStartWorker \/ ArQuery \/ ArQueryFails \/ ArSend \/ ArScanFails \/ ArClose \/ ArCompleted

\* the steps of worker w that need nothing from outside the process
ArLocalStep(w) ==
    ArRecv(w) \/ ArExit(w) \/ ArSaveCall(w) \/ ArSaveReturns(w) \/ ArSleep(w)

\* the request of worker w ends
ArFetchEnds(w) == ArScrapeFails(w) \/ ArScraped(w)

FairArticleRun ==
    /\ WF_vars(ArMainStep)
    /\ \A w \in Workers : WF_vars(ArLocalStep(w))
    /\ \A w \in Workers : WF_vars(HasTimeout(ArticleClientTimeout) /\ ArFetchEnds(w))
    \* the database answers every statement
    /\ \A w \in Workers : WF_vars(SvStatement(w) \/ ArSaveFault(w))

SpecArticleRunLive == InitArticleRun /\ [][NextArticleRun]_vars /\ FairArticleRun

\* C18: every fetch carries a timeout, so no worker stays in a fetch for ever
\* and the run eventually terminates (wg.Wait returns or the run is fatal).
C18_FetchesEnd == <>(mainPc \in {"done", "fatal"})


\* the sitemaps whose goroutine has passed its increment of the counter
Counted == {g \in DOMAIN gpc : gpc[g] \in {"wgdone", "exited"}}

\* C23: in the sitemap run the completed counter counts each sitemap exactly
\* once, after its processing has ended with or without an error; it never
\* decreases, never exceeds the number of sitemaps, and equals that number
\* when "All sitemaps processed" is logged.
C23_CompletedCountsEachOnce ==
    /\ [](prog = "sitemap_scraper" =>
            /\ completed = Cardinality(Counted)
            /\ completed <= Len(gpc)
            /\ mainPc = "done" => completed = Len(gpc))
    /\ [][completed' >= completed]_vars

\* the run is over, every sitemap is counted, one of them failed and one did not
C23_Witness ==
    /\ prog = "sitemap_scraper"
    /\ mainPc = "done"
    /\ completed = Len(gpc)
    /\ \E g \in DOMAIN gerr : gerr[g] # NoErr
    /\ \E g \in DOMAIN gerr : gerr[g] = NoErr

\* C6: the fetches in flight never exceed the limit: maxWorkers (the
\* semaphore's capacity) in the sitemap scraper, MaxWorkers (the size of the
\* worker pool) in the article scraper.
C6_BoundedFetches ==
    /\ prog = "sitemap_scraper" => SitemapFetchesInFlight <= maxWorkers
    /\ prog = "article_scraper" => ArticleFetchesInFlight <= MaxWorkers

\* the limit is reached while another sitemap waits for the semaphore
C6_Witness ==
    /\ prog = "sitemap_scraper"
    /\ SitemapFetchesInFlight = maxWorkers
    /\ \E g \in DOMAIN gpc : gpc[g] = "acquire"


\* no url twice in the sequence
NoRepeats(s) == \A i, j \in 1..Len(s) : s[i] = s[j] => i = j

\* the urls received and the urls waiting in the channel are the urls sent,
\* each once, and the channel holds at most its capacity (BatchSize)
QueueDeliversOnce ==
    /\ Len(urls) <= QueueCap
    /\ recvd \o urls = sent
    /\ NoRepeats(sent)

\* "Article scraping completed" is logged after every url sent was received
\* and every worker has returned
CompletedAfterAll ==
    mainPc = "done" =>
        /\ recvd = sent
        /\ \A w \in DOMAIN wpc : wpc[w] = "exited"

\* C22: every url sent to the channel is received exactly once by one
\* worker, the channel never holds more than its capacity, after close(urls)
\* every worker eventually exits, and the run is completed only after all
\* urls sent have been handled.
C22_EveryUrlHandledOnce ==
    /\ [](QueueDeliversOnce /\ CompletedAfterAll)
    /\ closed ~> (\A w \in DOMAIN wpc : wpc[w] = "exited")
    /\ closed ~> (mainPc = "done")

-----------------------------------------------------------------------------
(* SpecUnit: the order of the network and database steps inside a unit of    *)
(* work.  A sitemap goroutine runs processSitemap once, the category scraper *)
(* runs ScrapeCategories once, an article worker runs ScrapeArticle and      *)
(* SaveArticle for one url after the other.  A request is in flight from     *)
(* client.Get until the body has been read.                                  *)

\* website_config.go line 60: the seconds of the worker's time.Sleep
RetryDelay == 5

NumUnitWorkers == 2
MaxUnits == 2

UnitProgs == {"sitemap", "category", "article"}

\* the category scraper has no goroutine but main
UnitWorkers == 1..(IF unitProg = "category" THEN 1 ELSE NumUnitWorkers)

InitUnit ==
    /\ unitProg \in UnitProgs
    /\ \E n \in {IF unitProg = "category" THEN 1 ELSE NumUnitWorkers} :
          /\ upc = [w \in 1..n |-> "idle"]
          /\ inFlight = [w \in 1..n |-> FALSE]
          /\ fetched = [w \in 1..n |-> FALSE]
          /\ txOpen = [w \in 1..n |-> 0]
          /\ lastTx = [w \in 1..n |-> "none"]
          /\ tries = [w \in 1..n |-> 0]
          /\ unitsDone = [w \in 1..n |-> 0]
          /\ gap = [w \in 1..n |-> 0]
    /\ unitsLeft = (IF unitProg = "article" THEN MaxUnits ELSE 0)
    /\ IdleChange /\ IdleScrape /\ IdleFetch /\ IdleDb /\ IdleSave /\ IdleCat /\ IdleRun
    /\ IdlePs /\ IdleConc /\ IdleExtract

\* where the worker goes when the unit is over: an article worker sleeps after
\* SaveArticle and takes the next url, the others return
EndOfUnit(w, saved) ==
    /\ upc' = [upc EXCEPT ![w] = IF unitProg = "article"
                                 THEN (IF saved THEN "sleep" ELSE "idle")
                                 ELSE "exited"]
    /\ unitsDone' = [unitsDone EXCEPT ![w] = @ + 1]

\* the first client.Get of the unit (part_000 line 58, part_001 line 90,
\* part_003 line 62); an article worker takes the url from the channel
UnitStart(w) ==
    /\ upc[w] = "idle"
    /\ IF unitProg = "article"
       THEN unitsLeft > 0 /\ unitsLeft' = unitsLeft - 1
       ELSE UNCHANGED unitsLeft
    /\ upc' = [upc EXCEPT ![w] = "get"]
    /\ inFlight' = [inFlight EXCEPT ![w] = TRUE]
    /\ fetched' = [fetched EXCEPT ![w] = FALSE]
    /\ tries' = [tries EXCEPT ![w] = 1]
    /\ gap' = [gap EXCEPT ![w] = 0]
    /\ UNCHANGED <<unitProg, txOpen, lastTx, unitsDone, FrameUnit>>

\* article main.go line 59: the channel is closed and empty
UnitWorkerExits(w) ==
    /\ unitProg = "article"
    /\ upc[w] = "idle"
    /\ unitsLeft = 0
    /\ upc' = [upc EXCEPT ![w] = "exited"]
    /\ UNCHANGED <<unitProg, inFlight, fetched, txOpen, lastTx, tries, unitsDone, unitsLeft,
                   FrameUnit, gap>>

\* client.Get returns an error: fetchWithRetry sleeps (part_000 lines 62-65),
\* ScrapeCategories and ScrapeArticle return it
UnitGetFails(w) ==
    /\ upc[w] = "get"
    /\ inFlight' = [inFlight EXCEPT ![w] = FALSE]
    /\ IF unitProg = "sitemap"
       THEN upc' = [upc EXCEPT ![w] = "backoff"] /\ UNCHANGED unitsDone
       ELSE EndOfUnit(w, FALSE)
    /\ UNCHANGED <<unitProg, fetched, txOpen, lastTx, tries, unitsLeft, FrameUnit, gap>>

\* fetchWithRetry after the sleep: the next attempt, or the error after
\* maxRetries attempts (part_000 lines 57, 67)
UnitRetry(w) ==
    /\ upc[w] = "backoff"
    /\ IF tries[w] < maxRetries
       THEN /\ upc' = [upc EXCEPT ![w] = "get"]
            /\ inFlight' = [inFlight EXCEPT ![w] = TRUE]
            /\ tries' = [tries EXCEPT ![w] = @ + 1]
            /\ UNCHANGED unitsDone
       ELSE /\ EndOfUnit(w, FALSE)
            /\ UNCHANGED <<inFlight, tries>>
    /\ UNCHANGED <<unitProg, fetched, txOpen, lastTx, unitsLeft, FrameUnit, gap>>

\* client.Get returns a response; its body is still to be read
UnitGetReturns(w) ==
    /\ upc[w] = "get"
    /\ upc' = [upc EXCEPT ![w] = "body"]
    /\ UNCHANGED <<unitProg, inFlight, fetched, txOpen, lastTx, tries, unitsDone, unitsLeft,
                   FrameUnit, gap>>

\* io.ReadAll (part_000 line 160, part_001 line 96) or
\* goquery.NewDocumentFromReader (part_003 line 68) has read the body
UnitBodyRead(w) ==
    /\ upc[w] = "body"
    /\ inFlight' = [inFlight EXCEPT ![w] = FALSE]
    /\ fetched' = [fetched EXCEPT ![w] = TRUE]
    /\ upc' = [upc EXCEPT ![w] = IF unitProg = "article" THEN "begin" ELSE "parse"]
    /\ UNCHANGED <<unitProg, txOpen, lastTx, tries, unitsDone, unitsLeft, FrameUnit, gap>>

\* reading the body fails: the unit returns the error
UnitBodyFails(w) ==
    /\ upc[w] = "body"
    /\ inFlight' = [inFlight EXCEPT ![w] = FALSE]
    /\ EndOfUnit(w, FALSE)
    /\ UNCHANGED <<unitProg, fetched, txOpen, lastTx, tries, unitsLeft, FrameUnit, gap>>

\* xml.Unmarshal (part_000 lines 166-170, part_001 lines 101-104)
UnitParsed(w) ==
    /\ upc[w] = "parse"
    /\ upc' = [upc EXCEPT ![w] = "begin"]
    /\ UNCHANGED <<unitProg, inFlight, fetched, txOpen, lastTx, tries, unitsDone, unitsLeft,
                   FrameUnit, gap>>

UnitParseFails(w) ==
    /\ upc[w] = "parse"
    /\ EndOfUnit(w, FALSE)
    /\ UNCHANGED <<unitProg, inFlight, fetched, txOpen, lastTx, tries, unitsLeft, FrameUnit, gap>>

\* db.Begin (part_000 line 173, part_001 line 108, part_003 line 158)
UnitBegin(w) ==
    /\ upc[w] = "begin"
    /\ upc' = [upc EXCEPT ![w] = "tx"]
    /\ txOpen' = [txOpen EXCEPT ![w] = @ + 1]
    /\ UNCHANGED <<unitProg, inFlight, fetched, lastTx, tries, unitsDone, unitsLeft,
                   FrameUnit, gap>>

UnitBeginFails(w) ==
    /\ upc[w] = "begin"
    /\ EndOfUnit(w, TRUE)
    /\ UNCHANGED <<unitProg, inFlight, fetched, txOpen, lastTx, tries, unitsLeft, FrameUnit, gap>>

\* a return between Begin and Commit that leaves the transaction as it is
UnitReturnInTxNoRollback(w) ==
    /\ upc[w] = "tx"
    /\ EndOfUnit(w, TRUE)
    /\ UNCHANGED <<unitProg, inFlight, fetched, txOpen, lastTx, tries, unitsLeft, FrameUnit, gap>>

\* processSitemap returns when Prepare fails (part_000 lines 196-198),
\* SaveArticle returns at lines 196, 228, 239: the deferred tx.Rollback
\* (part_000 line 177, part_003 line 162) ends the transaction
UnitReturnInTx(w) ==
    /\ unitProg \in {"sitemap", "article"}
    /\ upc[w] = "tx"
    /\ txOpen' = [txOpen EXCEPT ![w] = @ - 1]
    /\ lastTx' = [lastTx EXCEPT ![w] = "rolledback"]
    /\ EndOfUnit(w, TRUE)
    /\ UNCHANGED <<unitProg, inFlight, fetched, tries, unitsLeft, FrameUnit, gap>>

\* ScrapeCategories returns when Prepare fails (part_001 lines 129-131): it
\* has no Rollback, deferred or not
CatPrepareFails(w) ==
    /\ unitProg = "category"
    /\ upc[w] = "tx"
    /\ EndOfUnit(w, FALSE)
    /\ UNCHANGED <<unitProg, inFlight, fetched, txOpen, lastTx, tries, unitsLeft, FrameUnit, gap>>

\* the statements of the unit have run, with or without errors that are logged
UnitStatements(w) ==
    /\ upc[w] = "tx"
    /\ upc' = [upc EXCEPT ![w] = "commit"]
    /\ UNCHANGED <<unitProg, inFlight, fetched, txOpen, lastTx, tries, unitsDone, unitsLeft,
                   FrameUnit, gap>>

\* tx.Commit (part_000 line 222, part_001 line 160, part_003 line 267)
UnitCommit(w) ==
    /\ upc[w] = "commit"
    /\ txOpen' = [txOpen EXCEPT ![w] = @ - 1]
    /\ lastTx' = [lastTx EXCEPT ![w] = "committed"]
    /\ EndOfUnit(w, TRUE)
    /\ UNCHANGED <<unitProg, inFlight, fetched, tries, unitsLeft, FrameUnit, gap>>

\* tx.Commit returns an error: the transaction is over all the same
UnitCommitFails(w) ==
    /\ upc[w] = "commit"
    /\ txOpen' = [txOpen EXCEPT ![w] = @ - 1]
    /\ lastTx' = [lastTx EXCEPT ![w] = "rolledback"]
    /\ EndOfUnit(w, TRUE)
    /\ UNCHANGED <<unitProg, inFlight, fetched, tries, unitsLeft, FrameUnit, gap>>

\* article main.go line 71: time.Sleep, then the next url
UnitSleep(w) ==
    /\ upc[w] = "sleep"
    /\ gap' = [gap EXCEPT ![w] = @ + RetryDelay]
    /\ upc' = [upc EXCEPT ![w] = "idle"]
    /\ UNCHANGED <<unitProg, inFlight, fetched, txOpen, lastTx, tries, unitsDone, unitsLeft,
                   FrameUnit>>

NextUnit ==
    \E w \in UnitWorkers :
        \/ UnitStart(w)
        \/ UnitWorkerExits(w)
        \/ UnitGetFails(w)
        \/ UnitRetry(w)
        \/ UnitGetReturns(w)
        \/ UnitBodyRead(w)
        \/ UnitBodyFails(w)
        \/ UnitParsed(w)
        \/ UnitParseFails(w)
        \/ UnitBegin(w)
        \/ UnitBeginFails(w)
        \/ UnitReturnInTx(w)
        \/ CatPrepareFails(w)
        \/ UnitStatements(w)
        \/ UnitCommit(w)
        \/ UnitCommitFails(w)
        \/ UnitSleep(w)

SpecUnit == InitUnit /\ [][NextUnit]_vars

\* C19: in every unit the transaction is begun only after the unit's fetch has
\* completed, and it has ended before the same worker starts another fetch:
\* while a worker's request is in flight the worker has no open transaction.
C19_NoTxAcrossFetch ==
    \A w \in DOMAIN upc :
        /\ inFlight[w] => txOpen[w] = 0
        /\ txOpen[w] > 0 => fetched[w] /\ ~inFlight[w]

\* a worker in the fetch of its next unit after the transaction of an earlier
\* unit was committed
C19_Witness ==
    \E w \in DOMAIN upc :
        /\ inFlight[w] /\ upc[w] = "get"
        /\ unitsDone[w] >= 1
        /\ lastTx[w] = "committed"


\* C25: between two consecutive article fetches of one worker RetryDelay
\* elapses, whether the scrape or the save of the earlier article succeeded
\* or failed: a worker that has handled a url sends its next request only
\* after it has slept RetryDelay since the request before.
C25_DelayBetweenFetches ==
    [][\A w \in DOMAIN upc :
           (unitProg = "article" /\ upc[w] = "idle" /\ upc'[w] = "get" /\ unitsDone[w] >= 1)
               => gap[w] >= RetryDelay]_vars

-----------------------------------------------------------------------------
(* SpecExtract: extractCategoryInfo (part_001 lines 170-189) applied to the  *)
(* locations a category sitemap can list: a host followed by path pieces.    *)

MaxSegments == 3

\* the pieces of a path: the marker, a slash, a name with a letter above
\* U+007F, a name with a hyphen
ExSegments == {CategoryMarker, Slash, <<"n", "é">>, <<"a", "-", "b">>}

RECURSIVE Flatten(_)
Flatten(segs) == IF segs = <<>> THEN <<>> ELSE Head(segs) \o Flatten(Tail(segs))

ExUrls == {Host \o Slash \o Flatten(segs) : segs \in SeqsUpTo(ExSegments, MaxSegments)}

NoInfo == [done |-> FALSE]

InitExtract ==
    /\ exUrl \in ExUrls
    /\ exOut = NoInfo
    /\ IdleChange /\ IdleScrape /\ IdleFetch /\ IdleDb /\ IdleSave /\ IdleCat /\ IdleRun
    /\ IdlePs /\ IdleUnit /\ IdleConc

ExtractCall ==
    /\ ~exOut.done
    /\ \E info \in {extractCategoryInfo(exUrl)} :
          exOut' = [done |-> TRUE, name |-> info.name, slug |-> info.slug]
    /\ UNCHANGED <<exUrl, FrameExtract>>

NextExtract == ExtractCall

SpecExtract == InitExtract /\ [][NextExtract]_vars

\* the url has "category/" in it
HasMarker(url) == Index(url, CategoryMarker) # 0

\* what follows the first marker of the url, less one slash at the end
PathAfterMarker(url) ==
    TrimSuffix(SubSeq(url, Index(url, CategoryMarker) + Len(CategoryMarker), Len(url)), Slash)

\* C21: extractCategoryInfo returns ("Unknown", "unknown") exactly when the url
\* has no "category/" in it, and for a url with the marker the slug is the path
\* after the marker with one trailing slash removed.
C21_FallbackIffNoMarker ==
    exOut.done =>
        /\ ([name |-> exOut.name, slug |-> exOut.slug] = Unknown) <=> ~HasMarker(exUrl)
        /\ HasMarker(exUrl) => exOut.slug = PathAfterMarker(exUrl)

====
